---- MODULE Spec2Model ----
(***************************************************************************)
(* A model of sisyphus, a one-shot reconciler of Kubernetes objects: the   *)
(* diff engine (generate_diff.rs), the apply executor (apply_diff.rs and   *)
(* the copy of it in main.rs) and the commands of main.rs that drive them. *)
(***************************************************************************)
EXTENDS Integers, Sequences, FiniteSets, TLC

VARIABLES
    command,            \* the subcommand that runs, with its arguments
    pc,                 \* position of the running command
    result,             \* "running", "ok" (exit 0) or "err"
    database,           \* the kubernetes_objects table: row key -> stored object
    clusters,           \* the objects the clusters' read API shows: place -> object
    terminating,        \* places whose delete was accepted and that are still shown
    from_files,         \* the rendered resource set of the monitor directory
    have,               \* generate_diff's `have` resource set (known objects)
    want,               \* generate_diff's `want` resource set (desired objects)
    changed,            \* the plan: a sequence of <<key, action>> pairs
    next,               \* apply loop: index of the action being applied
    step,               \* position inside the action being applied
    pending_deletions,  \* apply_diff.rs: the deletes whose tombstone is awaited
    polls,              \* wait_for_deletion's i
    log,                \* history: the cluster and database calls issued, in order
    executor,           \* which copy of the apply executor runs: "main" or "apply_diff"
    answer,             \* the line read at the confirmation prompt, None until read
    before,             \* history: the table and the clusters as the command found them
    registries          \* RegistryClients.clients: registry host -> the client built for it

vars == <<command, pc, result, database, clusters, terminating, from_files, have, want,
          changed, next, step, pending_deletions, polls, log, executor, answer, before,
          registries>>

(***************************************************************************)
(* Option<T>: None is the empty sequence, Some(x) the one-element one.     *)
(***************************************************************************)
None == <<>>
Some(x) == <<x>>
IsSome(o) == Len(o) = 1
Unwrap(o) == o[1]

(***************************************************************************)
(* serde_json::Value as a tagged record.  An object's members are a        *)
(* function from its keys (strings) to values.                             *)
(***************************************************************************)
JNull == [t |-> "null"]
JStr(s) == [t |-> "str", s |-> s]
JNum(n) == [t |-> "num", n |-> n]
JArr(a) == [t |-> "arr", a |-> a]
JObj(f) == [t |-> "obj", f |-> f]
EmptyMap == <<>>

IsObj(v) == v.t = "obj"
IsArr(v) == v.t = "arr"

\* The decimal rendering of an array index, as a JSON-Pointer token.
IndexToken(i) == <<"0", "1", "2", "3">>[i + 1]

(***************************************************************************)
(* json_patch::diff(left, right): the operations that turn left into       *)
(* right.  Members of two objects are compared key by key, elements of two *)
(* arrays index by index (surplus elements of left are all removed at the  *)
(* first surplus index), anything else that differs is replaced whole.     *)
(* The patch is kept as the set of its operations.                         *)
(***************************************************************************)
RECURSIVE json_patch_diff(_, _, _)
json_patch_diff(left, right, path) ==
    IF left = right THEN {}
    ELSE IF IsObj(left) /\ IsObj(right) THEN
        LET lk == DOMAIN left.f
            rk == DOMAIN right.f
        IN  UNION {json_patch_diff(left.f[k], right.f[k], Append(path, k)) : k \in lk \cap rk}
            \cup {[op |-> "remove", path |-> Append(path, k)] : k \in lk \ rk}
            \cup {[op |-> "add", path |-> Append(path, k), value |-> right.f[k]] : k \in rk \ lk}
    ELSE IF IsArr(left) /\ IsArr(right) THEN
        LET ll == Len(left.a)
            rl == Len(right.a)
            common == IF ll < rl THEN ll ELSE rl
        IN  UNION {json_patch_diff(left.a[i], right.a[i], Append(path, IndexToken(i - 1))) : i \in 1..common}
            \cup {[op |-> "remove", path |-> Append(path, IndexToken(common))] : i \in (common + 1)..ll}
            \cup {[op |-> "add", path |-> Append(path, IndexToken(i - 1)), value |-> right.a[i]] : i \in (common + 1)..rl}
    ELSE {[op |-> "replace", path |-> path, value |-> right]}

(***************************************************************************)
(* KubernetesKey.  The derived Ord compares the fields in declaration      *)
(* order: name, kind, api_version, namespace, cluster.  Strings compare    *)
(* bytewise; StrOrder lists the strings of the model in that order.        *)
(***************************************************************************)
Key(name, kind, api_version, namespace, cluster) ==
    [name |-> name, kind |-> kind, api_version |-> api_version,
     namespace |-> namespace, cluster |-> cluster]

IsNamespaceKey(k) == k.api_version = "v1" /\ k.kind = "Namespace"

StrOrder == <<"ClusterRole", "ConfigMap", "Deployment", "Job", "Namespace", "Widget",
              "apps/v1", "batch/v1", "c1", "c2", "cfg", "example/v1", "glob", "job",
              "n1", "n2", "rbac/v1", "role", "v1", "web", "widget">>
StrRank(s) == CHOOSE i \in 1..Len(StrOrder) : StrOrder[i] = s
StrCmp(a, b) == IF a = b THEN 0 ELSE IF StrRank(a) < StrRank(b) THEN -1 ELSE 1
\* Option<String>: None sorts before every Some.
OptCmp(a, b) ==
    IF a = b THEN 0
    ELSE IF ~IsSome(a) THEN -1
    ELSE IF ~IsSome(b) THEN 1
    ELSE StrCmp(Unwrap(a), Unwrap(b))
KeyLess(a, b) ==
    LET cs == <<StrCmp(a.name, b.name), StrCmp(a.kind, b.kind),
                StrCmp(a.api_version, b.api_version),
                OptCmp(a.namespace, b.namespace), StrCmp(a.cluster, b.cluster)>>
    IN  \E i \in 1..5 : cs[i] = -1 /\ \A j \in 1..(i - 1) : cs[j] = 0

\* The keys of a BTreeMap in iteration order.
RECURSIVE SortedKeys(_)
SortedKeys(S) ==
    IF S = {} THEN <<>>
    ELSE LET m == CHOOSE k \in S : \A o \in S \ {k} : KeyLess(k, o)
         IN  <<m>> \o SortedKeys(S \ {m})

(***************************************************************************)
(* DynamicObject {types, metadata, data} and its serde_json form: types    *)
(* and data are flattened into the top level, metadata keeps the fields    *)
(* that are set.                                                           *)
(***************************************************************************)
TypeMeta(api_version, kind) == [api_version |-> api_version, kind |-> kind]
ObjectMeta(name, namespace, resource_version, uid, managed_fields) ==
    [name |-> name, namespace |-> namespace, resource_version |-> resource_version,
     uid |-> uid, managed_fields |-> managed_fields]
DynamicObject(types, metadata, data) ==
    [types |-> types, metadata |-> metadata, data |-> data]

ManagedFieldsValue(entries) ==
    JArr([i \in 1..Len(entries) |->
        JObj([x \in ({"manager"} \cup (IF IsSome(entries[i].fields_v1) THEN {"fieldsV1"} ELSE {})) |->
            IF x = "manager" THEN JStr(Unwrap(entries[i].manager)) ELSE Unwrap(entries[i].fields_v1)])])
MetaValue(m) ==
    LET set == {x \in {"name", "namespace", "resourceVersion", "uid", "managedFields"} :
                   CASE x = "name" -> IsSome(m.name)
                     [] x = "namespace" -> IsSome(m.namespace)
                     [] x = "resourceVersion" -> IsSome(m.resource_version)
                     [] x = "uid" -> IsSome(m.uid)
                     [] x = "managedFields" -> IsSome(m.managed_fields)}
    IN  JObj([x \in set |->
                   CASE x = "name" -> JStr(Unwrap(m.name))
                     [] x = "namespace" -> JStr(Unwrap(m.namespace))
                     [] x = "resourceVersion" -> JStr(Unwrap(m.resource_version))
                     [] x = "uid" -> JStr(Unwrap(m.uid))
                     [] x = "managedFields" -> ManagedFieldsValue(Unwrap(m.managed_fields))])
ToValue(o) ==
    JObj([x \in {"apiVersion", "kind", "metadata"} \cup DOMAIN o.data |->
             CASE x = "apiVersion" -> JStr(o.types.api_version)
               [] x = "kind" -> JStr(o.types.kind)
               [] x = "metadata" -> MetaValue(o.metadata)
               [] OTHER -> o.data[x]])

(***************************************************************************)
(* generate_diff.rs                                                        *)
(***************************************************************************)
\* path.to_string().starts_with("/a/b/"): the pointer has the tokens of the
\* prefix and at least one more.
PathStartsWith(path, prefix) ==
    /\ Len(path) > Len(prefix)
    /\ \A i \in 1..Len(prefix) : path[i] = prefix[i]

\* requires_recreate with the prefixes written without their closing slash.
requires_recreate_open_prefix(types, patch) ==
    CASE types.api_version = "apps/v1" /\ types.kind = "Deployment" ->
            \E o \in patch : /\ Len(o.path) >= 2 /\ o.path[1] = "spec" /\ o.path[2] = "selector"
      [] types.api_version = "batch/v1" /\ types.kind = "Job" ->
            \E o \in patch : /\ Len(o.path) >= 2 /\ o.path[1] = "spec" /\ o.path[2] = "template"
      [] OTHER -> FALSE

requires_recreate(types, patch) ==
    CASE types.api_version = "apps/v1" /\ types.kind = "Deployment" ->
            \E o \in patch : /\ o.op \in {"add", "remove", "replace"}
                             /\ PathStartsWith(o.path, <<"spec", "selector">>)
      [] types.api_version = "batch/v1" /\ types.kind = "Job" ->
            \E o \in patch : /\ o.op \in {"add", "remove", "replace"}
                             /\ PathStartsWith(o.path, <<"spec", "template">>)
      [] OTHER -> FALSE

Delete == [kind |-> "Delete"]
Create(v) == [kind |-> "Create", object |-> v]
Recreate(v) == [kind |-> "Recreate", object |-> v]
Patch(after, patch) == [kind |-> "Patch", after |-> after, patch |-> patch]

\* generate_single_diff that forgets to clear the uid of a Recreate payload.
generate_single_diff_keeps_uid(key, h, w) ==
    IF IsSome(h) /\ IsSome(w) THEN
        LET patch == json_patch_diff(ToValue(Unwrap(h)), ToValue(Unwrap(w)), <<>>)
            wo == Unwrap(w)
        IN  IF requires_recreate(wo.types, patch)
            THEN Recreate([wo EXCEPT !.metadata.resource_version = None])
            ELSE Patch(wo, patch)
    ELSE IF IsSome(h) THEN Delete
    ELSE Create(Unwrap(w))

\* have and want are Option<DynamicObject>; (None, None) is the error.
generate_single_diff(key, h, w) ==
    IF IsSome(h) /\ IsSome(w) THEN
        LET patch == json_patch_diff(ToValue(Unwrap(h)), ToValue(Unwrap(w)), <<>>)
            wo == Unwrap(w)
        IN  IF requires_recreate(wo.types, patch)
            THEN Recreate([wo EXCEPT !.metadata.resource_version = None,
                                     !.metadata.uid = None])
            ELSE Patch(wo, patch)
    ELSE IF IsSome(h) THEN Delete
    ELSE Create(Unwrap(w))

\* KubernetesResources {by_key, namespaces}: two maps from keys to objects.
KubernetesResources(by_key, namespaces) == [by_key |-> by_key, namespaces |-> namespaces]
Get(m, k) == IF k \in DOMAIN m THEN Some(m[k]) ELSE None

\* The loop without its `continue` for equal objects.
DiffWanted_no_skip(have_map, want_map) ==
    LET keys == SortedKeys(DOMAIN want_map)
    IN  [i \in 1..Len(keys) |->
            <<keys[i], generate_single_diff(keys[i], Get(have_map, keys[i]), Some(want_map[keys[i]]))>>]

\* One `for (key, w) in want_map` loop: the keys in map order, those whose
\* have object equals the want object skipped.
DiffWanted(have_map, want_map) ==
    LET keys == SortedKeys({k \in DOMAIN want_map : Get(have_map, k) # Some(want_map[k])})
    IN  [i \in 1..Len(keys) |->
            <<keys[i], generate_single_diff(keys[i], Get(have_map, keys[i]), Some(want_map[keys[i]]))>>]
\* One `for (key, h) in have_map` loop over what the first loops left in have.
DiffLeftOver(have_map, want_map, after) ==
    LET keys == SortedKeys({k \in DOMAIN have_map : k \notin DOMAIN want_map /\ k \notin after})
    IN  [i \in 1..Len(keys) |->
            <<keys[i], generate_single_diff(keys[i], Some(have_map[keys[i]]), None)>>]

\* generate_diff walking one map of all wanted keys and one of all known keys.
generate_diff_one_pass(h, w) ==
    LET first == DiffWanted(h.namespaces @@ h.by_key, w.namespaces @@ w.by_key)
        after == {first[i][1] : i \in 1..Len(first)}
    IN  first \o DiffLeftOver(h.namespaces @@ h.by_key, w.namespaces @@ w.by_key, after)

generate_diff(h, w) ==
    LET first == DiffWanted(h.namespaces, w.namespaces)
        second == DiffWanted(h.by_key, w.by_key)
        after == {first[i][1] : i \in 1..Len(first)} \cup {second[i][1] : i \in 1..Len(second)}
    IN  first \o second
        \o DiffLeftOver(h.by_key, w.by_key, after)
        \o DiffLeftOver(h.namespaces, w.namespaces, after)

\* The copy of generate_single_diff in main.rs: only a Deployment is ever
\* recreated.
main_requires_recreate(types, patch) ==
    /\ types.api_version = "apps/v1" /\ types.kind = "Deployment"
    /\ \E o \in patch : /\ o.op \in {"add", "remove", "replace"}
                        /\ PathStartsWith(o.path, <<"spec", "selector">>)
main_generate_single_diff(key, h, w) ==
    LET decide(wo, patch) ==
            IF main_requires_recreate(wo.types, patch)
            THEN Recreate([wo EXCEPT !.metadata.resource_version = None,
                                     !.metadata.uid = None])
            ELSE Patch(wo, patch)
    IN  IF IsSome(h) /\ IsSome(w)
        THEN decide(Unwrap(w), json_patch_diff(ToValue(Unwrap(h)), ToValue(Unwrap(w)), <<>>))
        ELSE IF IsSome(h) THEN Delete
        ELSE Create(Unwrap(w))

\* The copy of generate_diff in main.rs: its loops over want, its loops
\* over what they left in have.
main_DiffWanted(have_map, want_map) ==
    LET walk(keys) ==
            [i \in 1..Len(keys) |->
                <<keys[i], main_generate_single_diff(keys[i], Get(have_map, keys[i]), Some(want_map[keys[i]]))>>]
    IN  walk(SortedKeys({k \in DOMAIN want_map : Get(have_map, k) # Some(want_map[k])}))
\* The loop over have without the removal of the keys the first loops took.
main_DiffLeftOver_sees_all(have_map, want_map, after) ==
    LET walk(keys) ==
            [i \in 1..Len(keys) |->
                <<keys[i], main_generate_single_diff(keys[i], Some(have_map[keys[i]]), None)>>]
    IN  walk(SortedKeys(DOMAIN have_map))
main_DiffLeftOver(have_map, want_map, after) ==
    LET walk(keys) ==
            [i \in 1..Len(keys) |->
                <<keys[i], main_generate_single_diff(keys[i], Some(have_map[keys[i]]), None)>>]
    IN  walk(SortedKeys({k \in DOMAIN have_map : k \notin DOMAIN want_map /\ k \notin after}))
main_generate_diff(h, w) ==
    LET rest(done) ==
            done \o main_DiffLeftOver(h.by_key, w.by_key, {done[i][1] : i \in 1..Len(done)})
                 \o main_DiffLeftOver(h.namespaces, w.namespaces, {done[i][1] : i \in 1..Len(done)})
    IN  rest(main_DiffWanted(h.namespaces, w.namespaces) \o main_DiffWanted(h.by_key, w.by_key))

(***************************************************************************)
(* kubernetes.rs: copy_unmanaged_fields.  The result is Ok(value) with the *)
(* remove-patch paths that were pushed, or Err.  The path argument is the  *)
(* sequence of its tokens; the pushed paths are kept as a set of strings.  *)
(***************************************************************************)
Ok(v, rp) == [ok |-> TRUE, v |-> v, rp |-> rp]
Err == [ok |-> FALSE]

MANAGER == "sisyphus"

\* The names of object members the model uses, and format!("f:{}", k).
FieldKey_bare(k) == k
FieldKey(k) == "f:" \o k

\* The `k:<json>` selectors the model uses, in the order of the managed
\* map (sorted by key), each with the matcher its JSON text parses to.
KSelectors ==
    <<[key |-> "k:{\"name\":\"A\"}", matcher |-> [name |-> JStr("A")]],
      [key |-> "k:{\"name\":\"B\"}", matcher |-> [name |-> JStr("B")]]>>
IsKSelector(k) == \E i \in 1..Len(KSelectors) : KSelectors[i].key = k

\* Number::to_string
NumberToString(n) == <<"0", "1", "2", "3", "4", "5">>[n + 1]

\* wv.get(k) == Some(v) for every (k, v) of the matcher.
SelectorMatches(matcher, wv) ==
    \A k \in DOMAIN matcher : IsObj(wv) /\ k \in DOMAIN wv.f /\ wv.f[k] = matcher[k]

Min(S) == CHOOSE x \in S : \A y \in S : x <= y

\* path.join("/")
RECURSIVE JoinPath(_)
JoinPath(path) ==
    IF Len(path) = 0 THEN ""
    ELSE IF Len(path) = 1 THEN path[1]
    ELSE path[1] \o "/" \o JoinPath(Tail(path))

RECURSIVE copy_unmanaged_fields(_, _, _, _)
RECURSIVE MergeOwnedArray(_, _, _, _, _, _)
RECURSIVE MergeUnownedArray(_, _, _, _)

\* The loop of the (Array, Array, Object) arm from (1-based) index i on;
\* selectors is the list built from the managed map, used the indices of
\* those already taken.  Yields [ok, copy, rp].
MergeOwnedArray(h, w, selectors, used, i, path) ==
    LET here == Append(path, IndexToken(i - 1))
        push(rest, r) ==
            IF ~rest.ok \/ ~r.ok THEN [ok |-> FALSE]
            ELSE [rest EXCEPT !.copy = <<r.v>> \o @, !.rp = @ \cup r.rp]
        skip(rest) == IF rest.ok THEN [rest EXCEPT !.rp = @ \cup {JoinPath(here)}] ELSE rest
        element(matching) ==
            IF w[i] = JNull THEN
                IF h[i] # JNull /\ matching = {}
                THEN skip(MergeOwnedArray(h, w, selectors, used, i + 1, path))
                ELSE push(MergeOwnedArray(h, w, selectors, used \cup matching, i + 1, path),
                          Ok(JNull, {}))
            ELSE push(MergeOwnedArray(h, w, selectors, used \cup matching, i + 1, path),
                      copy_unmanaged_fields(
                          h[i], w[i],
                          IF matching = {} THEN JNull ELSE selectors[Min(matching)].data,
                          here))
        first(matching) == element(IF matching = {} THEN {} ELSE {Min(matching)})
    IN  IF i > Len(w) THEN [ok |-> TRUE, copy |-> <<>>, rp |-> {}]
        ELSE IF i > Len(h)
        THEN push(MergeOwnedArray(h, w, selectors, used, i + 1, path), Ok(w[i], {}))
        ELSE first({x \in (1..Len(selectors)) \ used : SelectorMatches(selectors[x].matcher, w[i])})

\* The (Array, Array, Null) arm taking want's elements as they are.
MergeUnownedArray_from_want(h, w, i, path) == [ok |-> TRUE, copy |-> w, rp |-> {}]

\* The (Array, Array, Null) loop without the removal of an element: a null
\* of want is pushed whatever have holds.
MergeUnownedArray_keeps_null(h, w, i, path) ==
    LET here == Append(path, IndexToken(i - 1))
        push(rest, r) ==
            IF ~rest.ok \/ ~r.ok THEN [ok |-> FALSE]
            ELSE [rest EXCEPT !.copy = <<r.v>> \o @, !.rp = @ \cup r.rp]
    IN  IF i > Len(w) THEN [ok |-> TRUE, copy |-> <<>>, rp |-> {}]
        ELSE IF i > Len(h) \/ w[i] = JNull
        THEN push(MergeUnownedArray(h, w, i + 1, path), Ok(w[i], {}))
        ELSE push(MergeUnownedArray(h, w, i + 1, path),
                  copy_unmanaged_fields(h[i], w[i], JNull, here))

\* The loop of the (Array, Array, Null) arm.
MergeUnownedArray(h, w, i, path) ==
    LET here == Append(path, IndexToken(i - 1))
        push(rest, r) ==
            IF ~rest.ok \/ ~r.ok THEN [ok |-> FALSE]
            ELSE [rest EXCEPT !.copy = <<r.v>> \o @, !.rp = @ \cup r.rp]
        skip(rest) == IF rest.ok THEN [rest EXCEPT !.rp = @ \cup {JoinPath(here)}] ELSE rest
    IN  IF i > Len(w) THEN [ok |-> TRUE, copy |-> <<>>, rp |-> {}]
        ELSE IF i > Len(h) THEN push(MergeUnownedArray(h, w, i + 1, path), Ok(w[i], {}))
        ELSE IF w[i] = JNull THEN
            IF h[i] # JNull
            THEN skip(MergeUnownedArray(h, w, i + 1, path))
            ELSE push(MergeUnownedArray(h, w, i + 1, path), Ok(JNull, {}))
        ELSE push(MergeUnownedArray(h, w, i + 1, path),
                  copy_unmanaged_fields(h[i], w[i], JNull, here))

\* The merge with the (_, Null, Null) arm returning want: a null of want
\* clears what we do not own.
copy_unmanaged_fields_null_wins(h, w, managed, path) ==
    LET array(r) == IF r.ok THEN Ok(JArr(r.copy), r.rp) ELSE Err
        owned(present) ==
            array(MergeOwnedArray(
                      h.a, w.a,
                      [i \in 1..Len(present) |->
                          [data |-> managed.f[present[i].key], matcher |-> present[i].matcher]],
                      {}, 1, path))
        object(subs) ==
            IF \E k \in DOMAIN subs : ~subs[k].ok THEN Err
            ELSE Ok(JObj([k \in DOMAIN h.f \cup DOMAIN w.f |->
                             IF k \in DOMAIN h.f THEN subs[k].v ELSE w.f[k]]),
                    UNION {subs[k].rp : k \in DOMAIN subs})
    IN  IF IsArr(h) /\ IsArr(w) /\ IsObj(managed) THEN
            IF \E k \in DOMAIN managed.f : ~IsKSelector(k) THEN Err
            ELSE owned(SelectSeq(KSelectors, LAMBDA x : x.key \in DOMAIN managed.f))
        ELSE IF IsArr(h) /\ IsArr(w) /\ managed = JNull THEN
            array(MergeUnownedArray(h.a, w.a, 1, path))
        ELSE IF IsObj(h) /\ IsObj(w) /\ (IsObj(managed) \/ managed = JNull) THEN
            object([k \in DOMAIN h.f |->
                       copy_unmanaged_fields(
                           h.f[k],
                           IF k \in DOMAIN w.f THEN w.f[k] ELSE JNull,
                           IF IsObj(managed) /\ FieldKey(k) \in DOMAIN managed.f
                               THEN managed.f[FieldKey(k)] ELSE JNull,
                           Append(path, k))])
        ELSE IF h.t = "str" /\ w.t = "num" THEN Ok(JStr(NumberToString(w.n)), {})
        ELSE Ok(w, {})

copy_unmanaged_fields(h, w, managed, path) ==
    LET array(r) == IF r.ok THEN Ok(JArr(r.copy), r.rp) ELSE Err
        owned(present) ==
            array(MergeOwnedArray(
                      h.a, w.a,
                      [i \in 1..Len(present) |->
                          [data |-> managed.f[present[i].key], matcher |-> present[i].matcher]],
                      {}, 1, path))
        object(subs) ==
            IF \E k \in DOMAIN subs : ~subs[k].ok THEN Err
            ELSE Ok(JObj([k \in DOMAIN h.f \cup DOMAIN w.f |->
                             IF k \in DOMAIN h.f THEN subs[k].v ELSE w.f[k]]),
                    UNION {subs[k].rp : k \in DOMAIN subs})
    IN  IF IsArr(h) /\ IsArr(w) /\ IsObj(managed) THEN
            IF \E k \in DOMAIN managed.f : ~IsKSelector(k) THEN Err
            ELSE owned(SelectSeq(KSelectors, LAMBDA x : x.key \in DOMAIN managed.f))
        ELSE IF IsArr(h) /\ IsArr(w) /\ managed = JNull THEN
            array(MergeUnownedArray(h.a, w.a, 1, path))
        ELSE IF IsObj(h) /\ IsObj(w) /\ (IsObj(managed) \/ managed = JNull) THEN
            object([k \in DOMAIN h.f |->
                       copy_unmanaged_fields(
                           h.f[k],
                           IF k \in DOMAIN w.f THEN w.f[k] ELSE JNull,
                           IF IsObj(managed) /\ FieldKey(k) \in DOMAIN managed.f
                               THEN managed.f[FieldKey(k)] ELSE JNull,
                           Append(path, k))])
        ELSE IF h.t = "str" /\ w.t = "num" THEN Ok(JStr(NumberToString(w.n)), {})
        ELSE IF w = JNull /\ IsObj(managed) THEN Ok(w, {})
        ELSE IF w = JNull /\ managed = JNull THEN Ok(h, {})
        ELSE Ok(w, {})

\* serde_json::from_value::<DynamicObject>: apiVersion and kind become the
\* types, metadata the ObjectMeta (a null or missing field is None), the
\* other members the data.
StringField(m, x) == IF x \in DOMAIN m /\ m[x].t = "str" THEN Some(m[x].s) ELSE None
ManagedFieldsOf(m) ==
    IF "managedFields" \in DOMAIN m /\ IsArr(m.managedFields)
    THEN Some([i \in 1..Len(m.managedFields.a) |->
                 [manager |-> StringField(m.managedFields.a[i].f, "manager"),
                  fields_v1 |-> Get(m.managedFields.a[i].f, "fieldsV1")]])
    ELSE None
FromValue(v) ==
    LET m == IF "metadata" \in DOMAIN v.f /\ IsObj(v.f.metadata) THEN v.f.metadata.f ELSE EmptyMap
    IN  DynamicObject(
            TypeMeta(v.f.apiVersion.s, v.f.kind.s),
            ObjectMeta(StringField(m, "name"), StringField(m, "namespace"),
                       StringField(m, "resourceVersion"), StringField(m, "uid"), ManagedFieldsOf(m)),
            [x \in DOMAIN v.f \ {"apiVersion", "kind", "metadata"} |-> v.f[x]])

\* h.managed_fields().iter().find(|m| m.manager == us) and its fields_v1.
ManagedBy(h, us) ==
    LET entries == IF IsSome(h.metadata.managed_fields) THEN Unwrap(h.metadata.managed_fields) ELSE <<>>
        mine == {i \in 1..Len(entries) : entries[i].manager = us}
    IN  IF mine = {} \/ ~IsSome(entries[Min(mine)].fields_v1) THEN JNull
        ELSE Unwrap(entries[Min(mine)].fields_v1)

\* copy_single_unspecified_data for a key that have holds: [ok, have, want, rp].
copy_single_unspecified_data(h, w) ==
    LET store(merged, rp) ==
            [ok |-> TRUE,
             have |-> [h EXCEPT !.metadata.managed_fields = None,
                                !.metadata.name = merged.metadata.name,
                                !.metadata.namespace = merged.metadata.namespace],
             want |-> [merged EXCEPT !.metadata.managed_fields = None],
             rp |-> rp]
        finish(r) == IF r.ok THEN store(FromValue(r.v), r.rp) ELSE [ok |-> FALSE]
    IN  finish(copy_unmanaged_fields(ToValue(h), ToValue(w), ManagedBy(h, Some(MANAGER)), <<"">>))

\* make_comparable: [ok, from, to, remove_patches].
make_comparable(from, to) ==
    LET merge(have_map, want_map) ==
            [k \in DOMAIN want_map \cap DOMAIN have_map |->
                copy_single_unspecified_data(have_map[k], want_map[k])]
        build(by_key, namespaces) ==
            IF (\E k \in DOMAIN by_key : ~by_key[k].ok) \/ (\E k \in DOMAIN namespaces : ~namespaces[k].ok)
            THEN [ok |-> FALSE]
            ELSE [ok |-> TRUE,
                  from |-> KubernetesResources(
                      [k \in DOMAIN from.by_key |->
                          IF k \in DOMAIN by_key THEN by_key[k].have ELSE from.by_key[k]],
                      [k \in DOMAIN from.namespaces |->
                          IF k \in DOMAIN namespaces THEN namespaces[k].have ELSE from.namespaces[k]]),
                  to |-> KubernetesResources(
                      [k \in DOMAIN to.by_key |->
                          IF k \in DOMAIN by_key THEN by_key[k].want ELSE to.by_key[k]],
                      [k \in DOMAIN to.namespaces |->
                          IF k \in DOMAIN namespaces THEN namespaces[k].want ELSE to.namespaces[k]]),
                  remove_patches |->
                      {<<k, by_key[k].rp>> : k \in {x \in DOMAIN by_key : by_key[x].rp # {}}}
                      \cup {<<k, namespaces[k].rp>> : k \in {x \in DOMAIN namespaces : namespaces[x].rp # {}}}]
    IN  build(merge(from.by_key, to.by_key), merge(from.namespaces, to.namespaces))

\* munge_secrets(from, to): [ok, to].  The data of an object is always a
\* JSON object here, so `data must be an object` is raised only for a `data`
\* member that is not one.
\* A placeholder that is the empty string.
Placeholder_blank == JStr("")
Placeholder == JStr("c29tZSBzdHVmZg==")
\* munge_secrets returning at once for every object: nothing is scrubbed.
munge_secrets_keeps_incoming(from, to) == [ok |-> TRUE, to |-> to]
munge_secrets(from, to) ==
    IF ~(to.types.api_version = "v1" /\ to.types.kind = "Secret") THEN [ok |-> TRUE, to |-> to]
    ELSE
        LET fd == IF IsSome(from) /\ "data" \in DOMAIN Unwrap(from).data /\ IsObj(Unwrap(from).data["data"])
                  THEN Some(Unwrap(from).data["data"].f) ELSE None
            t == to.data
            t1 == IF IsSome(fd) THEN
                      LET tdd == IF "data" \in DOMAIN t THEN t["data"] ELSE JObj(EmptyMap)
                          fdd == Unwrap(fd)
                      IN  [x \in DOMAIN t \cup {"data"} |->
                              IF x = "data"
                              THEN JObj([k \in DOMAIN tdd.f \cup DOMAIN fdd |->
                                            IF k \in DOMAIN fdd THEN fdd[k] ELSE Placeholder])
                              ELSE t[x]]
                  ELSE IF "data" \in DOMAIN t /\ IsObj(t["data"]) THEN
                      [t EXCEPT !["data"] = JObj([k \in DOMAIN t["data"].f |-> Placeholder])]
                  ELSE t
            fkeys == IF IsSome(fd) THEN DOMAIN Unwrap(fd) ELSE {}
            t2 == IF "stringData" \in DOMAIN t1 /\ IsObj(t1["stringData"]) THEN
                      LET tsd == [k \in DOMAIN t1["stringData"].f \ fkeys |-> t1["stringData"].f[k]]
                      IN  IF DOMAIN tsd = {}
                          THEN [x \in DOMAIN t1 \ {"stringData"} |-> t1[x]]
                          ELSE [t1 EXCEPT !["stringData"] = JObj(tsd)]
                  ELSE t1
        IN  IF IsSome(fd) /\ "data" \in DOMAIN t /\ ~IsObj(t["data"]) THEN [ok |-> FALSE]
            ELSE [ok |-> TRUE, to |-> [to EXCEPT !.data = t2]]

\* filter.rs (and the same text in main.rs): PartialKey and key_matches_filter.
PartialKey(api_version, cluster, kind, name, namespace) ==
    [api_version |-> api_version, cluster |-> cluster, kind |-> kind, name |-> name,
     namespace |-> namespace]
\* A filter whose namespace lets every key without a namespace pass.
key_matches_filter_unscoped_pass(key, f) ==
    /\ IsSome(f.api_version) => key.api_version = Unwrap(f.api_version)
    /\ IsSome(f.cluster) => key.cluster = Unwrap(f.cluster)
    /\ IsSome(f.kind) => key.kind = Unwrap(f.kind)
    /\ IsSome(f.name) => key.name = Unwrap(f.name)
    /\ IsSome(f.namespace) /\ IsSome(key.namespace) => key.namespace = f.namespace
key_matches_filter(key, f) ==
    /\ IsSome(f.api_version) => key.api_version = Unwrap(f.api_version)
    /\ IsSome(f.cluster) => key.cluster = Unwrap(f.cluster)
    /\ IsSome(f.kind) => key.kind = Unwrap(f.kind)
    /\ IsSome(f.name) => key.name = Unwrap(f.name)
    /\ IsSome(f.namespace) => key.namespace = f.namespace

(***************************************************************************)
(* The objects of the model.                                               *)
(***************************************************************************)
NsKey(n, c) == Key(n, "Namespace", "v1", None, c)
DepKey == Key("web", "Deployment", "apps/v1", Some("n1"), "c1")
JobKey == Key("job", "Job", "batch/v1", Some("n1"), "c1")
CmKey == Key("cfg", "ConfigMap", "v1", Some("n1"), "c1")

\* What the server assigned to an object the database knows.
KnownMeta(name, namespace) == ObjectMeta(Some(name), namespace, Some("1"), Some("u1"), None)

Selector(app) == JObj([matchLabels |-> JObj([app |-> JStr(app)])])
Template(image) ==
    JObj([spec |-> JObj([containers |-> JArr(<<JObj([name |-> JStr("job"), image |-> JStr(image)])>>)])])

DepData == {
    [spec |-> JObj([replicas |-> JNum(1), selector |-> Selector("old")])],
    [spec |-> JObj([replicas |-> JNum(2), selector |-> Selector("old")])],
    [spec |-> JObj([replicas |-> JNum(1), selector |-> Selector("new")])],
    [spec |-> JObj([replicas |-> JNum(1), selector |-> JObj([matchLabels |-> JObj([app |-> JStr("old"), tier |-> JStr("web")])])])],
    [spec |-> JObj([replicas |-> JNum(1)])] }
JobData == {
    [spec |-> JObj([template |-> Template("busybox:1.0")])],
    [spec |-> JObj([template |-> Template("busybox:2.0")])],
    [spec |-> JObj([backoffLimit |-> JNum(2), template |-> Template("busybox:1.0")])],
    [spec |-> JObj([backoffLimit |-> JNum(2)])] }
\* A ConfigMap whose body looks like a Deployment's: its type is what counts.
CmData == {
    [spec |-> JObj([selector |-> Selector("old")])],
    [spec |-> JObj([selector |-> Selector("new")])] }
NsData == { EmptyMap, [spec |-> JObj([finalizers |-> JArr(<<JStr("kubernetes")>>)])] }

ObjectsOf(k, datas) ==
    {DynamicObject(TypeMeta(k.api_version, k.kind), KnownMeta(k.name, k.namespace), d) : d \in datas}

\* The maps with at most one entry, for key k.
MaybeEntry(k, objects) == {EmptyMap} \cup {(k :> o) : o \in objects}

(***************************************************************************)
(* SpecDiff: generate_diff applied to bounded resource sets.  Namespace    *)
(* objects are in the namespaces map and nowhere else, as every caller     *)
(* builds the sets.                                                        *)
(***************************************************************************)
Idle ==
    /\ result = "running"
    /\ registries = EmptyMap
    /\ database = EmptyMap
    /\ clusters = EmptyMap
    /\ terminating = {}
    /\ from_files = KubernetesResources(EmptyMap, EmptyMap)
    /\ next = 0
    /\ step = "none"
    /\ pending_deletions = <<>>
    /\ polls = 0
    /\ log = <<>>
    /\ executor = "none"
    /\ answer = None
    /\ before = [database |-> EmptyMap, clusters |-> EmptyMap]

DiffHave ==
    {KubernetesResources(d @@ j @@ c, n) :
        d \in MaybeEntry(DepKey, {o \in ObjectsOf(DepKey, DepData) : o.data.spec.f.replicas = JNum(1)}),
        j \in MaybeEntry(JobKey, {o \in ObjectsOf(JobKey, JobData) : "template" \in DOMAIN o.data.spec.f /\ "backoffLimit" \notin DOMAIN o.data.spec.f /\ o.data.spec.f.template = Template("busybox:1.0")}),
        c \in MaybeEntry(CmKey, {o \in ObjectsOf(CmKey, CmData) : o.data.spec.f.selector = Selector("old")}),
        n \in MaybeEntry(NsKey("n1", "c1"), ObjectsOf(NsKey("n1", "c1"), {EmptyMap}))}
DiffWant ==
    {KubernetesResources(d @@ j @@ c, n) :
        d \in MaybeEntry(DepKey, ObjectsOf(DepKey, DepData)),
        j \in MaybeEntry(JobKey, ObjectsOf(JobKey, JobData)),
        c \in MaybeEntry(CmKey, ObjectsOf(CmKey, CmData)),
        n \in MaybeEntry(NsKey("n1", "c1"), ObjectsOf(NsKey("n1", "c1"), NsData))}

InitDiff ==
    /\ Idle
    /\ command = [name |-> "generate_diff"]
    /\ pc = "input"
    /\ have \in DiffHave
    /\ want \in DiffWant
    /\ changed = <<>>

GenerateDiff ==
    /\ command.name = "generate_diff"
    /\ pc = "input"
    /\ changed' = generate_diff(have, want)
    /\ pc' = "returned"
    /\ UNCHANGED <<registries, command, result, database, clusters, terminating, from_files, have, want,
                   next, step, pending_deletions, polls, log, executor, answer, before>>

NextDiff == GenerateDiff
SpecDiff == InitDiff /\ [][NextDiff]_vars

(***************************************************************************)
(* The clusters.  get_kubernetes_clients builds one client per cluster of  *)
(* the keys and runs discovery; get_kubernetes_api resolves a key to the   *)
(* Api its calls go to, namespaced (`default` when the key has none) or    *)
(* cluster-wide by the discovered scope of the type.                       *)
(***************************************************************************)
DiscoveredTypes ==
    (<<"v1", "Namespace">> :> "Cluster") @@ (<<"v1", "ConfigMap">> :> "Namespaced")
    @@ (<<"v1", "Secret">> :> "Namespaced")
    @@ (<<"apps/v1", "Deployment">> :> "Namespaced") @@ (<<"rbac/v1", "ClusterRole">> :> "Cluster")

\* What Discovery::run returns of a cluster: c2 has the Widget type installed.
Discovery(cluster) ==
    IF cluster = "c2"
    THEN (<<"example/v1", "Widget">> :> "Namespaced") @@ DiscoveredTypes
    ELSE DiscoveredTypes

\* One client per cluster of the keys, and discovery run with the client
\* `clients.values().next()` yields, which can be the client of any of
\* them.  discovered lists the clusters discovery was run on.
get_kubernetes_clients_first(keys, first) ==
    [clients |-> {k.cluster : k \in keys},
     discovered |-> IF keys = {} THEN <<>> ELSE <<first>>,
     types |-> IF keys = {} THEN EmptyMap ELSE Discovery(first)]

\* The same for keys that name one cluster, as all keys of a run of a
\* command here do: there is one client to take.
get_kubernetes_clients(keys) ==
    IF keys = {} THEN get_kubernetes_clients_first(keys, "")
    ELSE get_kubernetes_clients_first(keys, CHOOSE c \in {k.cluster : k \in keys} : TRUE)

get_kubernetes_api(key, found) ==
    IF key.cluster \notin found.clients \/ <<key.api_version, key.kind>> \notin DOMAIN found.types
    THEN [ok |-> FALSE]
    ELSE [ok |-> TRUE, cluster |-> key.cluster, api_version |-> key.api_version, kind |-> key.kind,
          namespace |-> IF found.types[<<key.api_version, key.kind>>] = "Cluster" THEN None
                        ELSE IF IsSome(key.namespace) THEN key.namespace ELSE Some("default")]

(***************************************************************************)
(* SpecPure: copy_unmanaged_fields, munge_secrets and key_matches_filter   *)
(* applied to bounded inputs.  The command holds the arguments, changed    *)
(* the values returned so far.                                             *)
(***************************************************************************)
\* Arguments of copy_unmanaged_fields: arrays of scalars and nulls, arrays
\* of env entries under `k:` selectors, flat and nested objects under `f:`
\* masks, and values of different types.
MergeCommands ==
    LET call(h, w, m) == [name |-> "copy_unmanaged_fields", have |-> h, want |-> w, managed |-> m]
        empty == JObj(EmptyMap)
        dot == JObj(("." :> empty))
        scalars == {JNull, JNum(1), JNum(2)}
        lists == {JArr(a) : a \in UNION {[1..n -> scalars] : n \in 0..3}}
        ref == JObj([secretKeyRef |-> JStr("frontend")])
        entries == {JNull,
                    JObj([name |-> JStr("A")]),
                    JObj([name |-> JStr("A"), value |-> JStr("old")]),
                    JObj([name |-> JStr("A"), valueFrom |-> ref]),
                    JObj([name |-> JStr("B"), value |-> JStr("old")]),
                    JObj([name |-> JStr("C"), value |-> JStr("old")])}
        envs == {JArr(a) : a \in UNION {[1..n -> entries] : n \in 1..2}}
        owned == JObj(("." :> empty) @@ ("f:name" :> empty) @@ ("f:value" :> empty))
        a == KSelectors[1].key
        b == KSelectors[2].key
        selectors == {JNull, empty, dot, JObj((a :> owned)), JObj((b :> owned)),
                      JObj((a :> owned) @@ (b :> owned))}
        members == {JNull, JStr("old"), JStr("new"), JNum(1)}
        objects == {JObj(f) : f \in UNION {[K -> members] : K \in SUBSET {"a", "b"}}}
        fields == {JNull, empty, JObj(("f:a" :> empty)), JObj(("f:a" :> empty) @@ ("f:b" :> empty))}
        specs == {JNull, JStr("old")} \cup {JObj(f) : f \in UNION {[K -> members] : K \in SUBSET {"a"}}}
        nested == {JObj([spec |-> o]) : o \in specs}
        masks == {JNull, empty, JObj(("f:spec" :> empty)), JObj(("f:spec" :> JObj(("f:a" :> empty))))}
        mixed == {JNull, JNum(1), JStr("1"), JArr(<<JNum(1)>>), JObj([a |-> JStr("old")])}
    IN  {call(h, w, m) : h \in lists, w \in lists, m \in {JNull, empty, dot}}
        \cup {call(h, w, m) : h \in envs, w \in envs, m \in selectors}
        \cup {call(h, w, m) : h \in objects, w \in objects, m \in fields}
        \cup {call(h, w, m) : h \in nested, w \in nested, m \in masks}
        \cup {call(h, w, m) : h \in mixed, w \in mixed, m \in {JNull, empty}}

\* Arguments of munge_secrets, twice for the same prior: the incoming
\* objects carry `data` and `stringData` members or not, the prior is none,
\* an object without `data`, or one with it.
SecretCommands ==
    LET call(from, first, second) ==
            [name |-> "munge_secrets", from |-> from, to |-> <<first, second>>]
        object(kind, body) ==
            DynamicObject(TypeMeta("v1", kind), KnownMeta("login", Some("n1")), body)
        maps(plain, other) ==
            {m \in UNION {[K -> {JStr("bmV3"), JStr("b3Ro")}] : K \in SUBSET {plain, other}} :
                other \in DOMAIN m => m[other] = JStr("bmV3")}
        bodies == {d @@ s :
                      d \in {EmptyMap, ("data" :> JStr("opaque"))}
                            \cup {("data" :> JObj(m)) : m \in maps("password", "api_key")},
                      s \in {EmptyMap} \cup {("stringData" :> JObj(m)) : m \in maps("new_key", "password")}}
        \* what an earlier run stored
        old == JStr("b2xk")
        priors == {None,
                   Some(object("Secret", EmptyMap)),
                   Some(object("Secret", ("data" :> JObj([password |-> old])))),
                   Some(object("Secret", ("data" :> JObj([password |-> old, username |-> old]))))}
    IN  {call(from, object("Secret", x), object("Secret", y)) : from \in priors, x \in bodies, y \in bodies}
        \cup {call(None, object("ConfigMap", x), object("ConfigMap", y)) :
                 x \in {("data" :> JObj(m)) : m \in maps("password", "api_key")},
                 y \in {("data" :> JObj(m)) : m \in maps("password", "api_key")}}

\* Arguments of key_matches_filter.
FilterCommands ==
    LET maybe(S) == {None} \cup {Some(x) : x \in S}
        names == {"web", "cfg"}
        kinds == {"Deployment", "ConfigMap"}
        versions == {"apps/v1", "v1"}
        namespaces == {"n1", "n2"}
        places == {"c1", "c2"}
    IN  {[name |-> "key_matches_filter", key |-> Key(n, k, v, ns, c), filter |-> f] :
            n \in names, k \in kinds, v \in versions, ns \in maybe(namespaces), c \in places,
            f \in {PartialKey(fv, fc, fk, fn, fns) :
                      fv \in maybe(versions), fc \in maybe(places), fk \in maybe(kinds),
                      fn \in maybe(names), fns \in maybe(namespaces)}}

\* registry_clients.rs: the client of a registry host, built on the first
\* request that names the host and kept for the life of the pool.  credential
\* is what the credential helper answers for the host, accepted whether the
\* registry lets the login through.
get_client(clients, registry, secure, credential, accepted) ==
    IF registry \in DOMAIN clients
    THEN [ok |-> TRUE, clients |-> clients, client |-> clients[registry]]
    ELSE IF credential = "IdentityToken"
    THEN [ok |-> FALSE, clients |-> clients, error |-> "Cannot handle tokens"]
    ELSE IF credential \notin {"UsernamePassword", "NoCredentialConfigured"}
    THEN [ok |-> FALSE, clients |-> clients, error |-> "Error fetching credential"]
    ELSE IF credential = "UsernamePassword" /\ ~accepted
    THEN [ok |-> FALSE, clients |-> clients, error |-> "authenticate"]
    ELSE LET v == [registry |-> registry,
                   insecure_registry |-> ~secure,
                   username |-> IF credential = "UsernamePassword" THEN Some("user") ELSE None,
                   authenticated |-> credential = "UsernamePassword"]
         IN  [ok |-> TRUE, clients |-> (registry :> v) @@ clients, client |-> v]

DefaultRegistry == "registry-1.docker.io"

\* A request is the image url cut at its separators: an optional scheme, then
\* registry and repository, or the repository alone (the reference parser
\* then names the default registry); anything else does not parse.
get_reference_and_registry(clients, registry, credentials, accepted) ==
    LET starts_with(prefix) == Len(registry) > 0 /\ registry[1] = prefix
        secure == ~starts_with("http://")
        schemaless == IF starts_with("http://") \/ starts_with("https://")
                      THEN Tail(registry) ELSE registry
    IN  IF Len(schemaless) \notin {1, 2}
        THEN [ok |-> FALSE, clients |-> clients, error |-> "Unable to parse image url"]
        ELSE LET reference ==
                     [registry |-> IF Len(schemaless) = 2 THEN schemaless[1] ELSE DefaultRegistry,
                      repository |-> schemaless[Len(schemaless)]]
                 got == get_client(clients, reference.registry, secure,
                                   credentials[reference.registry], accepted)
             IN  IF got.ok
                 THEN [ok |-> TRUE, clients |-> got.clients, reference |-> reference,
                       client |-> got.client]
                 ELSE got

MaxRequests == 3

\* Sequences of requests to one pool, with what the credential helper holds.
RegistryCommands ==
    LET urls == {<<"http://", "r1.example", "app">>, <<"https://", "r1.example", "app">>,
                 <<"r1.example", "app">>, <<"http://", "r2.example", "app">>,
                 <<"r2.example", "app">>, <<"app">>, <<"https://">>}
        helper(kind) == ("r1.example" :> kind) @@ ("r2.example" :> "NoCredentialConfigured")
                        @@ (DefaultRegistry :> "NoCredentialConfigured")
        logins == {[credentials |-> helper(kind), accepted |-> a] :
                      kind \in {"UsernamePassword", "IdentityToken", "NoCredentialConfigured",
                                "HelperNotFound"},
                      a \in BOOLEAN}
        uses(l) == l.accepted \/ l.credentials["r1.example"] = "UsernamePassword"
    IN  {[name |-> "get_reference_and_registry", requests |-> r,
          credentials |-> l.credentials, accepted |-> l.accepted] :
            r \in UNION {[1..n -> urls] : n \in 1..MaxRequests},
            l \in {x \in logins : uses(x)}}

\* Keys for get_kubernetes_clients and the key get_kubernetes_api resolves.
ClientCommands ==
    LET keys == {Key("web", "Deployment", "apps/v1", Some("n1"), c) : c \in {"c1", "c2"}}
                \cup {Key("widget", "Widget", "example/v1", Some("n1"), c) : c \in {"c1", "c2"}}
                \cup {Key("n1", "Namespace", "v1", None, c) : c \in {"c1", "c2"}}
    IN  {[name |-> "get_kubernetes_api", keys |-> K, key |-> k] :
            K \in SUBSET keys \ {{}}, k \in keys}

InitPure ==
    /\ Idle
    /\ command \in MergeCommands \cup SecretCommands \cup FilterCommands \cup RegistryCommands
                   \cup ClientCommands
    /\ pc = "input"
    /\ have = KubernetesResources(EmptyMap, EmptyMap)
    /\ want = KubernetesResources(EmptyMap, EmptyMap)
    /\ changed = <<>>

\* make_comparable starts every merge at the path [""].
CopyUnmanagedFields ==
    /\ command.name = "copy_unmanaged_fields"
    /\ pc = "input"
    /\ changed' = <<copy_unmanaged_fields(command.have, command.want, command.managed, <<"">>)>>
    /\ pc' = "returned"
    /\ UNCHANGED <<registries, command, result, database, clusters, terminating, from_files, have, want,
                   next, step, pending_deletions, polls, log, executor, answer, before>>

\* The merge of the same have with what the first merge returned.
CopyAgain ==
    /\ command.name = "copy_unmanaged_fields"
    /\ pc = "returned"
    /\ changed[1].ok
    /\ changed' = Append(changed,
                         copy_unmanaged_fields(command.have, changed[1].v, command.managed, <<"">>))
    /\ pc' = "repeated"
    /\ UNCHANGED <<registries, command, result, database, clusters, terminating, from_files, have, want,
                   next, step, pending_deletions, polls, log, executor, answer, before>>

MungeSecrets ==
    /\ command.name = "munge_secrets"
    /\ pc = "input"
    /\ changed' = <<munge_secrets(command.from, command.to[1]),
                    munge_secrets(command.from, command.to[2])>>
    /\ pc' = "returned"
    /\ UNCHANGED <<registries, command, result, database, clusters, terminating, from_files, have, want,
                   next, step, pending_deletions, polls, log, executor, answer, before>>

KeyMatchesFilter ==
    /\ command.name = "key_matches_filter"
    /\ pc = "input"
    /\ changed' = <<key_matches_filter(command.key, command.filter)>>
    /\ pc' = "returned"
    /\ UNCHANGED <<registries, command, result, database, clusters, terminating, from_files, have, want,
                   next, step, pending_deletions, polls, log, executor, answer, before>>

\* One request to the pool; the pool outlives the request, served or failed.
GetReferenceAndRegistry ==
    /\ command.name = "get_reference_and_registry"
    /\ pc = "input"
    /\ LET got == get_reference_and_registry(registries, command.requests[Len(changed) + 1],
                                              command.credentials, command.accepted)
       IN  /\ registries' = got.clients
           /\ changed' = Append(changed, got)
    /\ pc' = IF Len(changed) + 1 = Len(command.requests) THEN "returned" ELSE "input"
    /\ UNCHANGED <<command, result, database, clusters, terminating, from_files, have, want,
                   next, step, pending_deletions, polls, log, executor, answer, before>>

\* get_kubernetes_clients for the keys, then get_kubernetes_api for one.
GetKubernetesApi ==
    /\ command.name = "get_kubernetes_api"
    /\ pc = "input"
    /\ \E first \in {k.cluster : k \in command.keys} :
        \E found \in {get_kubernetes_clients_first(command.keys, first)} :
            changed' = <<found, get_kubernetes_api(command.key, found)>>
    /\ pc' = "returned"
    /\ UNCHANGED <<registries, command, result, database, clusters, terminating, from_files, have,
                   want, next, step, pending_deletions, polls, log, executor, answer, before>>

NextPure ==
    \/ GetKubernetesApi
    \/ CopyUnmanagedFields
    \/ CopyAgain
    \/ MungeSecrets
    \/ KeyMatchesFilter
    \/ GetReferenceAndRegistry
SpecPure == InitPure /\ [][NextPure]_vars

(***************************************************************************)
(* The kubernetes_objects table.  A row is found by (api_version, cluster, *)
(* kind, name, namespace) with the namespace a string; its yaml column is  *)
(* the serialised object, read back by get_objects_from_database.          *)
(***************************************************************************)
namespace_or_default(namespace) == IF IsSome(namespace) THEN Unwrap(namespace) ELSE ""
RowKey(key) ==
    [api_version |-> key.api_version, cluster |-> key.cluster, kind |-> key.kind,
     name |-> key.name, namespace |-> namespace_or_default(key.namespace)]
RowToKey(row) ==
    Key(row.name, row.kind, row.api_version,
        IF row.namespace = "" THEN None ELSE Some(row.namespace), row.cluster)

\* INSERT: a second row for a primary key is refused, [ok, db].
InsertRow(db, key, yaml) ==
    IF RowKey(key) \in DOMAIN db THEN [ok |-> FALSE, db |-> db]
    ELSE [ok |-> TRUE, db |-> (RowKey(key) :> yaml) @@ db]
\* UPDATE ... SET yaml = $1 WHERE <key>: no row, no change.
UpdateRow_keeps_yaml(db, key, yaml) == db
UpdateRow(db, key, yaml) ==
    [r \in DOMAIN db |-> IF r = RowKey(key) THEN yaml ELSE db[r]]
\* DELETE ... WHERE <key>
DeleteRow(db, key) == [r \in DOMAIN db \ {RowKey(key)} |-> db[r]]

get_objects_from_database(db) ==
    LET keys(ns) == {RowToKey(r) : r \in {x \in DOMAIN db : IsNamespaceKey(RowToKey(x)) = ns}}
    IN  KubernetesResources([k \in keys(FALSE) |-> FromValue(db[RowKey(k)])],
                            [k \in keys(TRUE) |-> FromValue(db[RowKey(k)])])

\* The place in the cluster a call of api for name addresses.
Target(api, name) ==
    [cluster |-> api.cluster, api_version |-> api.api_version, kind |-> api.kind,
     namespace |-> api.namespace, name |-> name]

\* The resourceVersion the server gives the next write of an object.
RvNext(rv) == CASE rv = "1" -> "2" [] rv = "2" -> "3" [] rv = "3" -> "4" [] OTHER -> "5"

\* The fieldsV1 tree that owns every member of a body.
RECURSIVE FieldsV1(_)
FieldsV1(v) ==
    IF IsObj(v)
    THEN JObj([fk \in {FieldKey(k) : k \in DOMAIN v.f} |->
                 FieldsV1(v.f[CHOOSE k \in DOMAIN v.f : FieldKey(k) = fk])])
    ELSE JObj(EmptyMap)

\* Server-Side Apply (PATCH, fieldManager sisyphus, force) of body at a
\* place that holds live (an Option): refused when the body names another
\* namespace than the request or carries a resourceVersion or uid that is
\* not the live one; else the stored object, which is what it returns.
ServerApplyAccepts(live, api, body) ==
    /\ IsSome(body.metadata.namespace) => body.metadata.namespace = api.namespace
    /\ IsSome(body.metadata.resource_version) =>
           IsSome(live) /\ Unwrap(live).metadata.resource_version = body.metadata.resource_version
    /\ IsSome(body.metadata.uid) =>
           IsSome(live) /\ Unwrap(live).metadata.uid = body.metadata.uid
ServerApply(live, api, name, body) ==
    LET kept == IF IsSome(live)
                THEN {k \in DOMAIN Unwrap(live).data :
                         /\ k \notin DOMAIN body.data
                         /\ ~(IsObj(ManagedBy(Unwrap(live), Some(MANAGER)))
                              /\ FieldKey(k) \in DOMAIN ManagedBy(Unwrap(live), Some(MANAGER)).f)}
                ELSE {}
    IN  DynamicObject(
            body.types,
            ObjectMeta(Some(name), api.namespace,
                       IF IsSome(live) THEN Some(RvNext(Unwrap(Unwrap(live).metadata.resource_version)))
                                       ELSE Some("1"),
                       IF IsSome(live) THEN Unwrap(live).metadata.uid ELSE Some("u2"),
                       Some(<<[manager |-> Some(MANAGER),
                               fields_v1 |-> Some(FieldsV1(JObj(body.data)))]>>)),
            [k \in DOMAIN body.data \cup kept |->
                IF k \in DOMAIN body.data THEN body.data[k] ELSE Unwrap(live).data[k]])

\* A JSON Patch on the live object.  The operations of a plan address
\* members of objects; an operation on a member that is not there fails.
RECURSIVE HasPath(_, _)
HasPath(v, path) ==
    \/ path = <<>>
    \/ IsObj(v) /\ Head(path) \in DOMAIN v.f /\ HasPath(v.f[Head(path)], Tail(path))
RECURSIVE ApplyOps(_, _, _)
ApplyOps(v, ops, path) ==
    IF \E o \in ops : o.path = path /\ o.op \in {"add", "replace"}
    THEN (CHOOSE o \in ops : o.path = path /\ o.op \in {"add", "replace"}).value
    ELSE IF IsObj(v) THEN
        LET removed == {k \in DOMAIN v.f : \E o \in ops : o.op = "remove" /\ o.path = Append(path, k)}
            added == {o \in ops : /\ o.op = "add" /\ Len(o.path) = Len(path) + 1
                                  /\ SubSeq(o.path, 1, Len(path)) = path}
        IN  JObj([k \in (DOMAIN v.f \ removed) \cup {o.path[Len(o.path)] : o \in added} |->
                     IF k \in DOMAIN v.f THEN ApplyOps(v.f[k], ops, Append(path, k))
                     ELSE (CHOOSE o \in added : o.path = Append(path, k)).value])
    ELSE v
ServerJsonPatchAccepts(live, ops) ==
    /\ IsSome(live)
    /\ \A o \in ops : /\ o.op \in {"remove", "replace"} => HasPath(ToValue(Unwrap(live)), o.path)
                      /\ o.op = "add" => HasPath(ToValue(Unwrap(live)), SubSeq(o.path, 1, Len(o.path) - 1))
ServerJsonPatch(live, ops) ==
    LET patched == FromValue(ApplyOps(ToValue(Unwrap(live)), ops, <<>>))
    IN  [patched EXCEPT !.metadata.resource_version =
                            Some(RvNext(Unwrap(Unwrap(live).metadata.resource_version)))]

\* A record of one call for the history: the cluster calls apply,
\* json_patch, delete and get, the statements insert, update and delete_row.
\* index is the plan position of the action that issued it (0: none),
\* visible whether the read API showed the object when the call was made,
\* value what the call returned or stored.
Call(call, index, key, ok, visible, value) ==
    [call |-> call, index |-> index, key |-> key, ok |-> ok, visible |-> visible, value |-> value]
ClusterWrites == {"apply", "json_patch", "delete"}
DatabaseWrites == {"insert", "update", "delete_row"}

(***************************************************************************)
(* Spec: one run of a command of main.rs.  The states a run starts from.   *)
(***************************************************************************)
\* Keys a `global` folder can render that the clusters cannot take as they
\* are: a namespaced type without a namespace, a type discovery does not
\* know, a cluster-scoped type with a namespace.
GlobKey == Key("glob", "ConfigMap", "v1", None, "c1")
WidgetKey == Key("widget", "Widget", "example/v1", Some("n1"), "c1")
RoleKey == Key("role", "ClusterRole", "rbac/v1", Some("n1"), "c1")

\* An object as a file renders it, and as the server stored it when it was
\* first applied.
FileObject(k, data) ==
    DynamicObject(TypeMeta(k.api_version, k.kind),
                  ObjectMeta(Some(k.name), k.namespace, None, None, None), data)
ApiOf(k) == get_kubernetes_api(k, get_kubernetes_clients({k}))
Applied(k, data) ==
    [ServerApply(None, ApiOf(k), k.name, FileObject(k, data)) EXCEPT !.metadata.uid = Some("u1")]

DepOld == [spec |-> JObj([replicas |-> JNum(1), selector |-> Selector("old")])]
DepScaled == [spec |-> JObj([replicas |-> JNum(2), selector |-> Selector("old")])]
DepNew == [spec |-> JObj([replicas |-> JNum(1), selector |-> Selector("new")])]
CmOld == [spec |-> JObj([selector |-> Selector("old")])]
CmNew == [spec |-> JObj([selector |-> Selector("new")])]

\* Tables: rows of objects applied by earlier runs.
Rows(k, datas) == {EmptyMap} \cup {(RowKey(k) :> ToValue(Applied(k, d))) : d \in datas}
Databases ==
    {d @@ c @@ n : d \in Rows(DepKey, {DepOld}), c \in Rows(CmKey, {CmOld}),
                   n \in Rows(NsKey("n1", "c1"), {EmptyMap})}
\* The clusters holding what the table says.
InSync(db) ==
    [t \in {Target(ApiOf(RowToKey(r)), r.name) : r \in DOMAIN db} |->
        FromValue(db[CHOOSE r \in DOMAIN db : Target(ApiOf(RowToKey(r)), r.name) = t])]

\* Rendered directories.
Files(k, datas) == {EmptyMap} \cup {(k :> FileObject(k, d)) : d \in datas}
Rendered ==
    {KubernetesResources(d @@ c @@ g @@ n, EmptyMap) :
        d \in Files(DepKey, {DepOld, DepScaled, DepNew}),
        c \in Files(CmKey, {CmOld, CmNew}),
        g \in {EmptyMap} \cup {(k :> FileObject(k, CmOld)) : k \in {GlobKey, WidgetKey, RoleKey}},
        n \in Files(NsKey("n1", "c1"), NsData \ {EmptyMap})}
NoFilter == PartialKey(None, None, None, None, None)
Filters == {NoFilter, PartialKey(None, None, Some("Deployment"), None, None)}

Started ==
    /\ pc = "start"
    /\ registries = EmptyMap
    /\ result = "running"
    /\ terminating = {}
    /\ have = KubernetesResources(EmptyMap, EmptyMap)
    /\ want = KubernetesResources(EmptyMap, EmptyMap)
    /\ changed = <<>>
    /\ next = 0
    /\ step = "none"
    /\ pending_deletions = <<>>
    /\ polls = 0
    /\ log = <<>>
    /\ answer = None
    /\ before = [database |-> database, clusters |-> clusters]

InitPush ==
    /\ \E f \in Filters : command = [name |-> "push", filter |-> f]
    /\ executor \in {"main", "apply_diff"}
    /\ database \in Databases
    /\ clusters = InSync(database)
    /\ from_files \in Rendered
    /\ Started

\* An object of the cluster that no run applied.
Foreign(k, data) ==
    [Applied(k, data) EXCEPT !.metadata.managed_fields =
        Some(<<[manager |-> Some("kubectl"), fields_v1 |-> Some(FieldsV1(JObj(data)))]>>)]
\* A Secret somebody made on the cluster, with a value in `data`.
SecretKey == Key("login", "Secret", "v1", Some("n1"), "c1")
SecretData == [type |-> JStr("Opaque"), data |-> JObj([password |-> JStr("c2VjcmV0")])]
InitImport ==
    /\ \E k \in {DepKey, WidgetKey, RoleKey, SecretKey} : command = [name |-> "import", key |-> k]
    /\ executor = "none"
    /\ database \in Databases
    /\ clusters \in {InSync(database),
                     (Target(ApiOf(DepKey), "web") :> Foreign(DepKey, DepScaled)) @@ InSync(database),
                     (Target(ApiOf(SecretKey), "login") :> Foreign(SecretKey, SecretData))
                         @@ InSync(database)}
    /\ from_files = KubernetesResources(EmptyMap, EmptyMap)
    /\ Started

InitForget ==
    /\ \E k \in {DepKey, CmKey} : command = [name |-> "forget", key |-> k]
    /\ executor = "none"
    /\ database \in Databases
    /\ clusters = InSync(database)
    /\ from_files = KubernetesResources(EmptyMap, EmptyMap)
    /\ Started

\* What the clusters can hold of a tracked object when refresh runs: the
\* object as stored, a later version of it, an object made anew under the
\* name with another selector, or nothing.
Drifted(o) ==
    {o, [o EXCEPT !.metadata.resource_version = Some("2"),
                  !.data = ("status" :> JObj([observed |-> JNum(1)])) @@ @]}
    \cup IF "spec" \in DOMAIN o.data /\ IsObj(o.data["spec"]) /\ "selector" \in DOMAIN o.data["spec"].f
         THEN {[o EXCEPT !.metadata.uid = Some("u2"),
                         !.data = ("spec" :> JObj([o.data["spec"].f EXCEPT !["selector"] = Selector("new")])) @@ @]}
         ELSE {}
InitRefresh ==
    /\ command = [name |-> "refresh"]
    /\ executor = "none"
    /\ database \in Databases
    /\ \E gone \in SUBSET DOMAIN InSync(database) :
        \E live \in [DOMAIN InSync(database) \ gone -> UNION {Drifted(InSync(database)[t]) : t \in DOMAIN InSync(database)}] :
            /\ \A t \in DOMAIN live : live[t] \in Drifted(InSync(database)[t])
            /\ clusters = live
    /\ from_files = KubernetesResources(EmptyMap, EmptyMap)
    /\ Started

Init == InitPush \/ InitImport \/ InitForget \/ InitRefresh

(***************************************************************************)
(* main.rs: the commands up to the confirmation prompt.                    *)
(***************************************************************************)
SynthesizedNamespace(namespace) ==
    DynamicObject(TypeMeta("v1", "Namespace"),
                  ObjectMeta(Some(namespace), None, None, None, None), EmptyMap)

\* push, lines 295-338: Namespace objects of the global folder move to the
\* namespaces map, and every namespace a rendered key names gets an entry.
PushResources_synthesizes_all(files) ==
    LET global == {k \in DOMAIN files.by_key : IsNamespaceKey(k)}
        by_key == [k \in DOMAIN files.by_key \ global |-> files.by_key[k]]
        named == {NsKey(Unwrap(k.namespace), k.cluster) : k \in {x \in DOMAIN by_key : IsSome(x.namespace)}}
    IN  KubernetesResources(
            by_key,
            [k \in global \cup DOMAIN files.namespaces \cup named |->
                IF k \in named THEN SynthesizedNamespace(k.name)
                ELSE IF k \in global THEN files.by_key[k]
                ELSE files.namespaces[k]])
PushResources(files) ==
    LET global == {k \in DOMAIN files.by_key : IsNamespaceKey(k)}
        by_key == [k \in DOMAIN files.by_key \ global |-> files.by_key[k]]
        named == {NsKey(Unwrap(k.namespace), k.cluster) : k \in {x \in DOMAIN by_key : IsSome(x.namespace)}}
    IN  KubernetesResources(
            by_key,
            [k \in global \cup DOMAIN files.namespaces \cup named |->
                IF k \in global THEN files.by_key[k]
                ELSE IF k \in DOMAIN files.namespaces THEN files.namespaces[k]
                ELSE SynthesizedNamespace(k.name)])

Retain_all(m, f) == m
Retain(m, f) == [k \in {x \in DOMAIN m : key_matches_filter(x, f)} |-> m[k]]

\* push, lines 341-366: [ok, from_database, from_files, changed].
push_diff(files, db, filter) ==
    LET plan(kept_database, kept_files, comparable) ==
            IF ~comparable.ok THEN [ok |-> FALSE]
            ELSE [ok |-> TRUE, from_database |-> kept_database, from_files |-> kept_files,
                  changed |-> main_generate_diff(comparable.from, comparable.to)]
        compare(kept_database, kept_files) ==
            plan(kept_database, kept_files, make_comparable(kept_database, kept_files))
        retain(rendered, from_database, munged) ==
            IF \E k \in DOMAIN munged : ~munged[k].ok THEN [ok |-> FALSE]
            ELSE compare(KubernetesResources(Retain(from_database.by_key, filter),
                                             Retain(from_database.namespaces, filter)),
                         KubernetesResources(Retain([k \in DOMAIN munged |-> munged[k].to], filter),
                                             Retain(rendered.namespaces, filter)))
        copy(from, to) ==
            munge_secrets(from,
                IF IsSome(from)
                THEN [to EXCEPT !.metadata.resource_version = Unwrap(from).metadata.resource_version,
                                !.metadata.uid = Unwrap(from).metadata.uid]
                ELSE to)
        munge(rendered, from_database) ==
            retain(rendered, from_database,
                   [k \in DOMAIN rendered.by_key |->
                       copy(Get(from_database.by_key, k), rendered.by_key[k])])
    IN  munge(PushResources(files), get_objects_from_database(db))

\* A failed step that is left to be taken again.
Retry ==
    /\ result' = result
    /\ pc' = pc
\* `?` on an Err: the command returns the error.
Fail ==
    /\ result' = "err"
    /\ pc' = "done"
Succeed ==
    /\ result' = "ok"
    /\ pc' = "done"

PushDiff ==
    /\ command.name = "push"
    /\ pc = "start"
    /\ \E d \in {push_diff(from_files, database, command.filter)} :
           IF ~d.ok THEN Fail /\ UNCHANGED <<have, want, changed>>
           ELSE /\ have' = d.from_database
                /\ want' = d.from_files
                /\ changed' = d.changed
                /\ IF Len(d.changed) = 0 THEN Succeed ELSE pc' = "prompt" /\ UNCHANGED result
    /\ UNCHANGED <<registries, command, database, clusters, terminating, from_files, next, step,
                   pending_deletions, polls, log, executor, answer, before>>

Live(t) == IF t \in DOMAIN clusters THEN Some(clusters[t]) ELSE None

\* import, lines 201-236.  The object read is kept as the one entry of want.
ImportLookup ==
    /\ command.name = "import"
    /\ pc = "start"
    /\ LET key == command.key
           api == ApiOf(key)
       IN  IF \/ RowKey(key) \in DOMAIN database
              \/ ~api.ok
              \/ IsSome(key.namespace) /\ ~IsSome(api.namespace)
           THEN Fail /\ UNCHANGED <<want, log>>
           ELSE LET live == Live(Target(api, key.name))
                    object == IF IsSome(live) THEN munge_secrets(None, Unwrap(live)) ELSE [ok |-> FALSE]
                IN  /\ log' = Append(log, Call("get", 0, key, IsSome(live), IsSome(live), live))
                    /\ IF object.ok
                       THEN /\ want' = KubernetesResources((key :> object.to), EmptyMap)
                            /\ pc' = "prompt"
                            /\ UNCHANGED result
                       ELSE Fail /\ UNCHANGED want
    /\ UNCHANGED <<registries, command, database, clusters, terminating, from_files, have, changed, next,
                   step, pending_deletions, polls, executor, answer, before>>

\* forget, lines 142-169
ForgetLookup ==
    /\ command.name = "forget"
    /\ pc = "start"
    /\ IF RowKey(command.key) \in DOMAIN database
       THEN pc' = "prompt" /\ UNCHANGED result
       ELSE Fail
    /\ UNCHANGED <<registries, command, database, clusters, terminating, from_files, have, want, changed,
                   next, step, pending_deletions, polls, log, executor, answer, before>>

\* get_objects_from_kubernetes: a key the cluster does not show is left
\* out; [ok, resources].
get_objects_from_kubernetes(from_database, shown) ==
    LET fetch(source, found) ==
            [k \in {x \in DOMAIN source : Target(get_kubernetes_api(x, found), x.name) \in DOMAIN shown} |->
                shown[Target(get_kubernetes_api(k, found), k.name)]]
        read(found) ==
            IF \E k \in DOMAIN from_database.by_key \cup DOMAIN from_database.namespaces :
                   ~get_kubernetes_api(k, found).ok
            THEN [ok |-> FALSE]
            ELSE [ok |-> TRUE,
                  resources |-> KubernetesResources(fetch(from_database.by_key, found),
                                                    fetch(from_database.namespaces, found))]
    IN  read(get_kubernetes_clients(DOMAIN from_database.by_key \cup DOMAIN from_database.namespaces))

\* refresh, lines 380-386: [ok, from_database, from_kubernetes, changed].
refresh_diff(db, shown) ==
    LET plan(from_database, from_kubernetes) ==
            [ok |-> TRUE, from_database |-> from_database, from_kubernetes |-> from_kubernetes,
             changed |-> main_generate_diff(from_database, from_kubernetes)]
        munge(from_database, resources, munged) ==
            IF \E k \in DOMAIN munged : ~munged[k].ok THEN [ok |-> FALSE]
            ELSE plan(from_database,
                      KubernetesResources([k \in DOMAIN munged |-> munged[k].to], resources.namespaces))
        fetched(from_database, read) ==
            IF ~read.ok THEN [ok |-> FALSE]
            ELSE munge(from_database, read.resources,
                       [k \in DOMAIN read.resources.by_key |->
                           munge_secrets(Get(from_database.by_key, k), read.resources.by_key[k])])
        known(from_database) ==
            fetched(from_database, get_objects_from_kubernetes(from_database, shown))
    IN  known(get_objects_from_database(db))

\* refresh, lines 380-390; a fetch that fails other than by 404 ends it.
RefreshDiff ==
    /\ command.name = "refresh"
    /\ pc = "start"
    /\ \E answered \in BOOLEAN :
        \E d \in {refresh_diff(database, clusters)} :
            IF ~answered \/ ~d.ok
            THEN Fail /\ UNCHANGED <<have, want, changed>>
            ELSE /\ have' = d.from_database
                 /\ want' = d.from_kubernetes
                 /\ changed' = d.changed
                 /\ IF Len(d.changed) = 0 THEN Succeed ELSE pc' = "prompt" /\ UNCHANGED result
    /\ UNCHANGED <<registries, command, database, clusters, terminating, from_files, next, step,
                   pending_deletions, polls, log, executor, answer, before>>

\* ask_for_user_permission: the line read, trimmed and lower-cased, is "y".
Answers == {"y\n", " Y\n", "n\n", "\n"}
Trim(s) == CASE s = "y\n" -> "y" [] s = " Y\n" -> "Y" [] s = "n\n" -> "n" [] s = "\n" -> "" [] OTHER -> s
ToLowercase(s) == CASE s = "Y" -> "y" [] OTHER -> s
\* A prompt that takes everything but "n" for a yes.
ask_for_user_permission_default_yes(response) == ToLowercase(Trim(response)) # "n"
ask_for_user_permission(response) == ToLowercase(Trim(response)) = "y"

Prompt ==
    /\ pc = "prompt"
    /\ \E response \in Answers :
        /\ answer' = Some(response)
        /\ IF ask_for_user_permission(response)
           THEN /\ pc' = CASE command.name = "push" ->
                                 IF executor = "apply_diff" THEN "validate" ELSE "actions"
                            [] OTHER -> command.name
                /\ next' = IF command.name = "push" THEN 1 ELSE next
                /\ UNCHANGED result
           ELSE Succeed /\ UNCHANGED next
    /\ UNCHANGED <<registries, command, database, clusters, terminating, from_files, have, want, changed,
                   step, pending_deletions, polls, log, executor, before>>

\* import, lines 242-270
ImportApply ==
    /\ pc = "import"
    /\ \E accepted \in BOOLEAN :
        LET key == command.key
            api == ApiOf(key)
            t == Target(api, key.name)
            object == [want.by_key[key] EXCEPT !.metadata.managed_fields = None]
            ok == accepted /\ ServerApplyAccepts(Live(t), api, object)
            response == ServerApply(Live(t), api, key.name, object)
            stored == InsertRow(database, key, ToValue(response))
        IN  IF ok
            THEN /\ clusters' = (t :> response) @@ clusters
                 /\ database' = stored.db
                 /\ log' = log \o <<Call("apply", 0, key, TRUE, t \in DOMAIN clusters, Some(response)),
                                    Call("insert", 0, key, stored.ok, FALSE, Some(ToValue(response)))>>
                 /\ IF stored.ok THEN Succeed ELSE Fail
            ELSE /\ log' = Append(log, Call("apply", 0, key, FALSE, t \in DOMAIN clusters, None))
                 /\ Fail
                 /\ UNCHANGED <<clusters, database>>
    /\ UNCHANGED <<registries, command, terminating, from_files, have, want, changed, next, step,
                   pending_deletions, polls, executor, answer, before>>

\* forget, lines 175-198
ForgetApply ==
    /\ pc = "forget"
    /\ database' = DeleteRow(database, command.key)
    /\ log' = Append(log, Call("delete_row", 0, command.key, TRUE, FALSE, None))
    /\ IF RowKey(command.key) \in DOMAIN database THEN Succeed ELSE Fail
    /\ UNCHANGED <<registries, command, clusters, terminating, from_files, have, want, changed, next, step,
                   pending_deletions, polls, executor, answer, before>>

\* refresh_group: the table after the statements for changed[i..].
RECURSIVE refresh_group(_, _, _)
refresh_group(plan, i, db) ==
    IF i > Len(plan) THEN db
    ELSE LET key == plan[i][1]
             action == plan[i][2]
         IN  refresh_group(plan, i + 1,
                 IF action.kind = "Delete" THEN DeleteRow(db, key)
                 ELSE UpdateRow(db, key,
                          ToValue(IF action.kind = "Patch" THEN action.after ELSE action.object)))

\* apply_refresh
RefreshApply ==
    /\ pc = "refresh"
    /\ database' = refresh_group(changed, 1, database)
    /\ log' = log \o [i \in 1..Len(changed) |->
                         IF changed[i][2].kind = "Delete"
                         THEN Call("delete_row", i, changed[i][1], TRUE, FALSE, None)
                         ELSE Call("update", i, changed[i][1], TRUE, FALSE,
                                   Some(ToValue(IF changed[i][2].kind = "Patch"
                                                THEN changed[i][2].after ELSE changed[i][2].object)))]
    /\ Succeed
    /\ UNCHANGED <<registries, command, clusters, terminating, from_files, have, want, changed, next, step,
                   pending_deletions, polls, executor, answer, before>>

(***************************************************************************)
(* The apply executor: apply_diff of apply_diff.rs (executor "apply_diff") *)
(* and apply_diff of main.rs (executor "main"), which push calls.  Every   *)
(* cluster write can be refused by the server; an accepted delete leaves   *)
(* the object visible until the cluster has finished it (Tombstone), which *)
(* can be at once.                                                         *)
(***************************************************************************)
\* How often a wait_for_deletion loop finds the object still there before
\* the model stops following it.
MaxPolls == 2

PlanKeys == {changed[i][1] : i \in 1..Len(changed)}
\* get_kubernetes_clients as each copy calls it.
Found ==
    IF executor = "main"
    THEN get_kubernetes_clients(DOMAIN have.by_key \cup DOMAIN want.by_key)
    ELSE get_kubernetes_clients(PlanKeys)

\* apply_diff.rs, lines 20-32
ScopeError(key, types) ==
    \/ <<key.api_version, key.kind>> \notin DOMAIN types
    \/ types[<<key.api_version, key.kind>>] = "Cluster" /\ IsSome(key.namespace)
    \/ types[<<key.api_version, key.kind>>] = "Namespaced" /\ ~IsSome(key.namespace)

Validate ==
    /\ pc = "validate"
    /\ IF \E k \in PlanKeys : ScopeError(k, Found.types)
       THEN Fail
       ELSE pc' = "actions" /\ UNCHANGED result
    /\ UNCHANGED <<registries, command, database, clusters, terminating, from_files, have, want, changed,
                   next, step, pending_deletions, polls, log, executor, answer, before>>

Applying(kind) ==
    /\ pc = "actions"
    /\ next <= Len(changed)
    /\ step = "none"
    /\ changed[next][2].kind = kind
    /\ get_kubernetes_api(changed[next][1], Found).ok
CurKey == changed[next][1]
CurApi == get_kubernetes_api(CurKey, Found)
CurTarget == Target(CurApi, CurKey.name)
Without(m, t) == [x \in DOMAIN m \ {t} |-> m[x]]

\* get_kubernetes_api fails for the key of the next action.
ApiUnavailable ==
    /\ pc = "actions"
    /\ next <= Len(changed)
    /\ step = "none"
    /\ ~CurApi.ok
    /\ Fail
    /\ UNCHANGED <<registries, command, database, clusters, terminating, from_files, have, want, changed,
                   next, step, pending_deletions, polls, log, executor, answer, before>>

\* DiffAction::Create
ApplyCreate ==
    /\ Applying("Create")
    /\ \E accepted \in BOOLEAN :
        LET v == changed[next][2].object
            ok == accepted /\ ServerApplyAccepts(Live(CurTarget), CurApi, v)
            response == ServerApply(Live(CurTarget), CurApi, CurKey.name, v)
            stored == InsertRow(database, CurKey, ToValue(response))
        IN  IF ok
            THEN /\ clusters' = (CurTarget :> response) @@ clusters
                 /\ database' = stored.db
                 /\ log' = log \o <<Call("apply", next, CurKey, TRUE, CurTarget \in DOMAIN clusters, Some(response)),
                                    Call("insert", next, CurKey, stored.ok, FALSE, Some(ToValue(response)))>>
                 /\ IF stored.ok
                    THEN next' = next + 1 /\ UNCHANGED <<pc, result>>
                    ELSE Fail /\ UNCHANGED next
            ELSE /\ log' = Append(log, Call("apply", next, CurKey, FALSE, CurTarget \in DOMAIN clusters, None))
                 /\ Fail
                 /\ UNCHANGED <<clusters, database, next>>
    /\ UNCHANGED <<registries, command, terminating, from_files, have, want, changed, step,
                   pending_deletions, polls, executor, answer, before>>

\* api.delete: refused for an object that is not there, or by the server.
\* lingering: the object stays visible after the call returned.
DeleteAccepted(accepted) == accepted /\ CurTarget \in DOMAIN clusters
AfterDelete(lingering) == IF lingering THEN clusters ELSE Without(clusters, CurTarget)

\* DiffAction::Delete
ApplyDelete ==
    /\ Applying("Delete")
    /\ \E accepted, lingering \in BOOLEAN :
        IF DeleteAccepted(accepted)
        THEN /\ clusters' = AfterDelete(lingering)
             /\ terminating' = IF lingering THEN terminating \cup {CurTarget} ELSE terminating \ {CurTarget}
             /\ database' = DeleteRow(database, CurKey)
             /\ log' = log \o <<Call("delete", next, CurKey, TRUE, TRUE, None),
                                Call("delete_row", next, CurKey, TRUE, FALSE, None)>>
             /\ pending_deletions' = IF executor = "apply_diff"
                                     THEN Append(pending_deletions, [api |-> CurApi, name |-> CurKey.name, key |-> CurKey])
                                     ELSE pending_deletions
             /\ next' = next + 1
             /\ UNCHANGED <<pc, result>>
        ELSE /\ log' = Append(log, Call("delete", next, CurKey, FALSE, CurTarget \in DOMAIN clusters, None))
             /\ Fail
             /\ UNCHANGED <<clusters, terminating, database, pending_deletions, next>>
    /\ UNCHANGED <<registries, command, from_files, have, want, changed, step, polls, executor, answer, before>>

\* DiffAction::Patch
ApplyPatch ==
    /\ Applying("Patch")
    /\ \E accepted \in BOOLEAN :
        LET patch == changed[next][2].patch
            ok == accepted /\ ServerJsonPatchAccepts(Live(CurTarget), patch)
            response == ServerJsonPatch(Live(CurTarget), patch)
        IN  IF ok
            THEN /\ clusters' = (CurTarget :> response) @@ clusters
                 /\ database' = UpdateRow(database, CurKey, ToValue(response))
                 /\ log' = log \o <<Call("json_patch", next, CurKey, TRUE, TRUE, Some(response)),
                                    Call("update", next, CurKey, TRUE, FALSE, Some(ToValue(response)))>>
                 /\ next' = next + 1
                 /\ UNCHANGED <<pc, result>>
            ELSE /\ log' = Append(log, Call("json_patch", next, CurKey, FALSE, CurTarget \in DOMAIN clusters, None))
                 /\ Fail
                 /\ UNCHANGED <<clusters, database, next>>
    /\ UNCHANGED <<registries, command, terminating, from_files, have, want, changed, step,
                   pending_deletions, polls, executor, answer, before>>

\* DiffAction::Recreate of main.rs: delete, apply, update, one after the other.
MainRecreate ==
    /\ executor = "main"
    /\ Applying("Recreate")
    /\ \E deleted, lingering, accepted \in BOOLEAN :
        LET v == changed[next][2].object
            live == IF lingering THEN Live(CurTarget) ELSE None
            ok == accepted /\ ServerApplyAccepts(live, CurApi, v)
            response == ServerApply(live, CurApi, CurKey.name, v)
        IN  IF ~DeleteAccepted(deleted)
            THEN /\ log' = Append(log, Call("delete", next, CurKey, FALSE, CurTarget \in DOMAIN clusters, None))
                 /\ Fail
                 /\ UNCHANGED <<clusters, terminating, database, next>>
            ELSE /\ terminating' = IF lingering THEN terminating \cup {CurTarget} ELSE terminating \ {CurTarget}
                 /\ IF ok
                    THEN /\ clusters' = (CurTarget :> response) @@ clusters
                         /\ database' = UpdateRow(database, CurKey, ToValue(response))
                         /\ log' = log \o <<Call("delete", next, CurKey, TRUE, TRUE, None),
                                            Call("apply", next, CurKey, TRUE, lingering, Some(response)),
                                            Call("update", next, CurKey, TRUE, FALSE, Some(ToValue(response)))>>
                         /\ next' = next + 1
                         /\ UNCHANGED <<pc, result>>
                    ELSE /\ clusters' = AfterDelete(lingering)
                         /\ log' = log \o <<Call("delete", next, CurKey, TRUE, TRUE, None),
                                            Call("apply", next, CurKey, FALSE, lingering, None)>>
                         /\ Fail
                         /\ UNCHANGED <<database, next>>
    /\ UNCHANGED <<registries, command, from_files, have, want, changed, step, pending_deletions, polls,
                   executor, answer, before>>

\* DiffAction::Recreate of apply_diff.rs, up to wait_for_deletion.
RecreateDelete ==
    /\ executor = "apply_diff"
    /\ Applying("Recreate")
    /\ \E accepted, lingering \in BOOLEAN :
        IF DeleteAccepted(accepted)
        THEN /\ clusters' = AfterDelete(lingering)
             /\ terminating' = IF lingering THEN terminating \cup {CurTarget} ELSE terminating \ {CurTarget}
             /\ log' = Append(log, Call("delete", next, CurKey, TRUE, TRUE, None))
             /\ step' = "wait_for_deletion"
             /\ polls' = 0
             /\ UNCHANGED <<pc, result>>
        ELSE /\ log' = Append(log, Call("delete", next, CurKey, FALSE, CurTarget \in DOMAIN clusters, None))
             /\ Fail
             /\ UNCHANGED <<clusters, terminating, step, polls>>
    /\ UNCHANGED <<registries, command, database, from_files, have, want, changed, next, pending_deletions,
                   executor, answer, before>>

\* One turn of wait_for_deletion's loop inside a Recreate: get_opt fails,
\* shows the object (sleep, i += 1) or shows nothing (return).
RecreatePoll ==
    /\ pc = "actions"
    /\ step = "wait_for_deletion"
    /\ \E answered \in BOOLEAN :
        IF ~answered
        THEN /\ log' = Append(log, Call("get", next, CurKey, FALSE, CurTarget \in DOMAIN clusters, None))
             /\ Fail
             /\ UNCHANGED <<step, polls>>
        ELSE /\ log' = Append(log, Call("get", next, CurKey, TRUE, CurTarget \in DOMAIN clusters, Live(CurTarget)))
             /\ IF CurTarget \in DOMAIN clusters
                THEN /\ polls < MaxPolls
                     /\ polls' = polls + 1
                     /\ UNCHANGED step
                ELSE /\ step' = "apply"
                     /\ polls' = 0
             /\ UNCHANGED <<pc, result>>
    /\ UNCHANGED <<registries, command, database, clusters, terminating, from_files, have, want, changed,
                   next, pending_deletions, executor, answer, before>>

\* DiffAction::Recreate of apply_diff.rs, after wait_for_deletion.
RecreateApply ==
    /\ pc = "actions"
    /\ step = "apply"
    /\ \E accepted \in BOOLEAN :
        LET v == changed[next][2].object
            ok == accepted /\ ServerApplyAccepts(Live(CurTarget), CurApi, v)
            response == ServerApply(Live(CurTarget), CurApi, CurKey.name, v)
        IN  IF ok
            THEN /\ clusters' = (CurTarget :> response) @@ clusters
                 /\ database' = UpdateRow(database, CurKey, ToValue(response))
                 /\ log' = log \o <<Call("apply", next, CurKey, TRUE, CurTarget \in DOMAIN clusters, Some(response)),
                                    Call("update", next, CurKey, TRUE, FALSE, Some(ToValue(response)))>>
                 /\ next' = next + 1
                 /\ step' = "none"
                 /\ UNCHANGED <<pc, result>>
            ELSE /\ log' = Append(log, Call("apply", next, CurKey, FALSE, CurTarget \in DOMAIN clusters, None))
                 /\ Fail
                 /\ UNCHANGED <<clusters, database, next, step>>
    /\ UNCHANGED <<registries, command, terminating, from_files, have, want, changed, pending_deletions,
                   polls, executor, answer, before>>

\* The loop has ended and the executor returns whatever is pending.
ActionsDone_returns ==
    /\ pc = "actions"
    /\ next > Len(changed)
    /\ Succeed
    /\ UNCHANGED <<registries, command, database, clusters, terminating, from_files, have, want, changed,
                   next, polls, step, pending_deletions, log, executor, answer, before>>

\* The loop over the plan has ended: main.rs returns, apply_diff.rs goes on
\* to wait for its pending deletions.
ActionsDone ==
    /\ pc = "actions"
    /\ next > Len(changed)
    /\ IF pending_deletions = <<>>
       THEN Succeed /\ UNCHANGED <<next, polls>>
       ELSE pc' = "tombstones" /\ next' = 1 /\ polls' = 0 /\ UNCHANGED result
    /\ UNCHANGED <<registries, command, database, clusters, terminating, from_files, have, want, changed,
                   step, pending_deletions, log, executor, answer, before>>

\* apply_diff.rs, lines 43-45: one turn of wait_for_deletion for
\* pending_deletions[next].
WaitForDeletion ==
    /\ pc = "tombstones"
    /\ \E answered \in BOOLEAN :
        LET pending == pending_deletions[next]
            t == Target(pending.api, pending.name)
        IN  IF ~answered
            THEN /\ log' = Append(log, Call("get", 0, pending.key, FALSE, t \in DOMAIN clusters, None))
                 /\ Fail
                 /\ UNCHANGED <<next, polls>>
            ELSE /\ log' = Append(log, Call("get", 0, pending.key, TRUE, t \in DOMAIN clusters, Live(t)))
                 /\ IF t \in DOMAIN clusters
                    THEN /\ polls < MaxPolls
                         /\ polls' = polls + 1
                         /\ UNCHANGED <<next, pc, result>>
                    ELSE /\ polls' = 0
                         /\ IF next = Len(pending_deletions)
                            THEN Succeed /\ UNCHANGED next
                            ELSE next' = next + 1 /\ UNCHANGED <<pc, result>>
    /\ UNCHANGED <<registries, command, database, clusters, terminating, from_files, have, want, changed,
                   step, pending_deletions, executor, answer, before>>

\* The cluster finishes a deletion: the object is no longer shown.
Tombstone ==
    /\ pc # "done"
    /\ \E t \in terminating :
        /\ clusters' = Without(clusters, t)
        /\ terminating' = terminating \ {t}
    /\ UNCHANGED <<registries, command, pc, result, database, from_files, have, want, changed, next, step,
                   pending_deletions, polls, log, executor, answer, before>>

Next ==
    \/ PushDiff
    \/ ImportLookup
    \/ ForgetLookup
    \/ RefreshDiff
    \/ Prompt
    \/ ImportApply
    \/ ForgetApply
    \/ RefreshApply
    \/ Validate
    \/ ApiUnavailable
    \/ ApplyCreate
    \/ ApplyDelete
    \/ ApplyPatch
    \/ MainRecreate
    \/ RecreateDelete
    \/ RecreatePoll
    \/ RecreateApply
    \/ ActionsDone
    \/ WaitForDeletion
    \/ Tombstone

Spec == Init /\ [][Next]_vars

(***************************************************************************)
(* Properties of a command run.                                            *)
(***************************************************************************)
IsWrite(e) == e.call \in ClusterWrites \cup DatabaseWrites
NoWrites == \A j \in 1..Len(log) : ~IsWrite(log[j])
Untouched == database = before.database /\ clusters = before.clusters
Confirmed == IsSome(answer) /\ ask_for_user_permission(Unwrap(answer))

KindOf(i) == changed[i][2].kind
\* The actions of the plan whose last statement has run.
Completed ==
    {i \in 1..Len(changed) :
        \E j \in 1..Len(log) : log[j].index = i /\ log[j].call \in DatabaseWrites /\ log[j].ok}
\* What the server answered to the write of action i.
Response(i) ==
    Unwrap(log[CHOOSE j \in 1..Len(log) :
                   log[j].index = i /\ log[j].call \in {"apply", "json_patch"} /\ log[j].ok].value)
PlanTarget(i) == Target(get_kubernetes_api(changed[i][1], Found), changed[i][1].name)

\* C1 as stated: in push, import, forget and refresh nothing is written to
\* a cluster or to the table before the prompt has returned, and an answer
\* other than `y` ends the command with success and leaves both as they were.
C1_AnswerOtherThanY ==
    /\ answer = None => NoWrites /\ Untouched
    /\ IsSome(answer) /\ Unwrap(answer) # "y\n" => result = "ok" /\ NoWrites /\ Untouched

\* C1, amended: nothing is written before the prompt has returned, and an
\* answer that, trimmed and lower-cased, is not `y` ends the command with
\* success and leaves the clusters and the table as they were.
C1_PromptGuardsWrites ==
    /\ answer = None => NoWrites /\ Untouched
    /\ IsSome(answer) /\ ToLowercase(Trim(Unwrap(answer))) # "y" =>
           result = "ok" /\ pc = "done" /\ NoWrites /\ Untouched

\* A push with a plan over a table with rows was answered `n`.
C1_Witness ==
    /\ command.name = "push"
    /\ answer = Some("n\n")
    /\ Len(changed) > 1
    /\ database # EmptyMap
    /\ result = "ok"

\* C2: in a push every row the executor writes holds the object the server
\* returned for that call: an insert or update stores the response of the
\* call just before it; a completed Create has made a new row with it, a
\* completed Patch or Recreate has it in the row that was there, a completed
\* Delete has left no row; rows of keys outside the plan are as they were.
C2_RowsHoldResponses ==
    command.name = "push" =>
        /\ \A j \in 1..Len(log) :
               log[j].call \in {"insert", "update"} /\ log[j].ok =>
                   /\ j > 1
                   /\ log[j - 1].call \in {"apply", "json_patch"}
                   /\ log[j - 1].ok
                   /\ log[j - 1].key = log[j].key
                   /\ log[j].value = Some(ToValue(Unwrap(log[j - 1].value)))
        /\ \A i \in Completed :
               CASE KindOf(i) = "Create" ->
                        /\ RowKey(changed[i][1]) \notin DOMAIN before.database
                        /\ RowKey(changed[i][1]) \in DOMAIN database
                        /\ database[RowKey(changed[i][1])] = ToValue(Response(i))
                 [] KindOf(i) \in {"Patch", "Recreate"} ->
                        /\ RowKey(changed[i][1]) \in DOMAIN before.database
                        /\ RowKey(changed[i][1]) \in DOMAIN database
                        /\ database[RowKey(changed[i][1])] = ToValue(Response(i))
                 [] OTHER -> RowKey(changed[i][1]) \notin DOMAIN database
        /\ \A r \in (DOMAIN before.database \cup DOMAIN database) \ {RowKey(k) : k \in PlanKeys} :
               /\ r \in DOMAIN before.database
               /\ r \in DOMAIN database
               /\ database[r] = before.database[r]

\* A push has completed a Create and a Recreate, and the rows they wrote
\* differ from the objects of the plan.
C2_Witness ==
    /\ command.name = "push"
    /\ result = "ok"
    /\ \E i, j \in Completed :
        /\ KindOf(i) = "Create"
        /\ KindOf(j) = "Recreate"
        /\ database[RowKey(changed[i][1])] # ToValue(changed[i][2].object)
        /\ database[RowKey(changed[j][1])] # ToValue(changed[j][2].object)
        /\ database[RowKey(changed[j][1])] # before.database[RowKey(changed[j][1])]

\* C3: apply_diff checks the scope of every key of the plan before it runs
\* any action: for a plan with a key of unknown type, a cluster-scoped key
\* with a namespace or a namespaced key without one it returns an error and
\* no write has gone to a cluster or to the table for any key.
C3_ScopeCheckedFirst ==
    command.name = "push" /\ Confirmed /\ (\E k \in PlanKeys : ScopeError(k, DiscoveredTypes)) =>
        /\ NoWrites
        /\ pc = "done" => result = "err"

\* apply_diff of main.rs has written an object of a plan that holds a key
\* whose scope is wrong.
C3_Witness ==
    /\ command.name = "push"
    /\ executor = "main"
    /\ \E k \in PlanKeys : ScopeError(k, DiscoveredTypes)
    /\ ~NoWrites

\* C4: a Recreate deletes, polls until a GET shows nothing, applies, then
\* updates the row: its apply is never sent while the old object is still
\* shown, it follows the delete and the GETs of the same action, the last of
\* which showed nothing, the update follows it, and the calls of the next
\* action come after that update.
C4_RecreateOrder ==
    command.name = "push" =>
        /\ \A j \in 1..Len(log) :
               log[j].call = "apply" /\ KindOf(log[j].index) = "Recreate" =>
                   /\ ~log[j].visible
                   /\ j > 2
                   /\ log[j - 1].call = "get" /\ log[j - 1].ok /\ log[j - 1].value = None
                   /\ \E d \in 1..(j - 2) :
                          /\ log[d].call = "delete" /\ log[d].ok /\ log[d].index = log[j].index
                          /\ \A m \in (d + 1)..(j - 1) :
                                 log[m].call = "get" /\ log[m].index = log[j].index
                   /\ log[j].ok => j < Len(log) /\ log[j + 1].call = "update"
                                   /\ log[j + 1].index = log[j].index
        /\ \A j \in 1..Len(log) :
               log[j].index > 1 /\ KindOf(log[j].index - 1) = "Recreate" =>
                   \E u \in 1..(j - 1) : log[u].call = "update" /\ log[u].index = log[j].index - 1

\* A Recreate of main.rs has sent its apply while the object it had just
\* deleted was still shown.
C4_Witness ==
    /\ command.name = "push"
    /\ \E j \in 1..Len(log) :
        log[j].call = "apply" /\ KindOf(log[j].index) = "Recreate" /\ log[j].visible

\* C5: a Delete calls delete and removes the row at once; no wait for a
\* tombstone starts before every action of the plan has been issued; and
\* apply_diff returns success only when, for every object a Delete deleted,
\* a GET sent after the delete has shown nothing.
C5_DeletesAwaited ==
    command.name = "push" =>
        /\ \A j \in 1..Len(log) :
               log[j].call = "delete" /\ log[j].ok /\ KindOf(log[j].index) = "Delete" =>
                   j < Len(log) /\ log[j + 1].call = "delete_row" /\ log[j + 1].key = log[j].key
        /\ \A j \in 1..Len(log) :
               log[j].call = "get" /\ log[j].index = 0 =>
                   \A i \in 1..Len(changed) : \E m \in 1..(j - 1) : log[m].index = i
        /\ pc = "done" /\ result = "ok" =>
               \A d \in 1..Len(log) :
                   log[d].call = "delete" /\ log[d].ok /\ KindOf(log[d].index) = "Delete" =>
                       \E g \in (d + 1)..Len(log) :
                           /\ log[g].call = "get" /\ log[g].ok
                           /\ log[g].key = log[d].key /\ log[g].value = None

\* apply_diff of main.rs has returned success while an object it deleted
\* is still shown.
C5_Witness ==
    /\ command.name = "push"
    /\ pc = "done" /\ result = "ok"
    /\ \E i \in Completed : KindOf(i) = "Delete" /\ PlanTarget(i) \in DOMAIN clusters

\* C6: when the server refuses the call of action i of a push, the run ends
\* with that error and the refused call is the last call made (no later
\* action, no retry); the row of the key is as the command found it; what
\* actions 1..i-1 did stays: their rows hold their responses or are gone,
\* and the clusters show what those actions wrote or deleted.
C6_NoRollbackNoRetry ==
    command.name = "push" =>
        \A j \in 1..Len(log) :
            log[j].call \in ClusterWrites /\ ~log[j].ok =>
                /\ j = Len(log)
                /\ pc = "done" /\ result = "err"
                /\ RowKey(log[j].key) \in DOMAIN database <=> RowKey(log[j].key) \in DOMAIN before.database
                /\ RowKey(log[j].key) \in DOMAIN database =>
                       database[RowKey(log[j].key)] = before.database[RowKey(log[j].key)]
                /\ \A i \in 1..(log[j].index - 1) :
                       /\ i \in Completed
                       /\ IF KindOf(i) = "Delete"
                          THEN /\ RowKey(changed[i][1]) \notin DOMAIN database
                               /\ PlanTarget(i) \in DOMAIN clusters => PlanTarget(i) \in terminating
                          ELSE /\ database[RowKey(changed[i][1])] = ToValue(Response(i))
                               /\ PlanTarget(i) \in DOMAIN clusters => clusters[PlanTarget(i)] = Response(i)
                               /\ PlanTarget(i) \in DOMAIN clusters \/ KindOf(i) = "Recreate"

\* The third action of a push was refused after a Create and a Patch or
\* Recreate had gone through.
C6_Witness ==
    /\ command.name = "push"
    /\ Len(log) > 0
    /\ log[Len(log)].call \in ClusterWrites
    /\ ~log[Len(log)].ok
    /\ log[Len(log)].index = 3
    /\ KindOf(1) = "Create"
    /\ KindOf(2) \in {"Patch", "Recreate"}

(***************************************************************************)
(* Properties of the diff engine (SpecDiff).                               *)
(***************************************************************************)
AllKeys(rs) == DOMAIN rs.by_key \cup DOMAIN rs.namespaces
Lookup(rs, k) == IF k \in DOMAIN rs.namespaces THEN Some(rs.namespaces[k]) ELSE Get(rs.by_key, k)
Contains(n, o) == IsNamespaceKey(n) /\ o.namespace = Some(n.name) /\ o.cluster = n.cluster

\* C7: in the returned plan the Create of a Namespace precedes every Create of
\* an object in that namespace of the same cluster, and the Delete of a
\* Namespace follows every Delete of an object in it.
C7_NamespaceOrdering ==
    pc = "returned" =>
        \A i, j \in 1..Len(changed) :
            Contains(changed[i][1], changed[j][1]) =>
                /\ (changed[i][2].kind = "Create" /\ changed[j][2].kind = "Create" => i < j)
                /\ (changed[i][2].kind = "Delete" /\ changed[j][2].kind = "Delete" => j < i)
C7_Witness ==
    /\ pc = "returned"
    /\ \E i, j \in 1..Len(changed) :
        /\ Contains(changed[i][1], changed[j][1])
        /\ changed[i][2].kind = "Create" /\ changed[j][2].kind = "Create"
        /\ KeyLess(changed[j][1], changed[i][1])

\* C8: the returned plan holds exactly one action for every key whose objects
\* differ between have and want and none for any other key: Create for a key
\* only in want, Delete for a key only in have, Patch or Recreate for a key in
\* both; equal sets give the empty plan.
C8_DiffExact ==
    pc = "returned" =>
        LET differing == {k \in AllKeys(have) \cup AllKeys(want) : Lookup(have, k) # Lookup(want, k)}
        IN  /\ {changed[i][1] : i \in 1..Len(changed)} = differing
            /\ Len(changed) = Cardinality(differing)
            /\ \A i \in 1..Len(changed) :
                LET k == changed[i][1]
                    a == changed[i][2]
                IN  /\ a.kind = "Create" <=> Lookup(have, k) = None
                    /\ a.kind = "Delete" <=> Lookup(want, k) = None
                    /\ a.kind \in {"Patch", "Recreate"} <=> (Lookup(have, k) # None /\ Lookup(want, k) # None)
            /\ (have = want => changed = <<>>)
C8_Witness ==
    /\ pc = "returned"
    /\ \E k \in AllKeys(have) : Lookup(have, k) = Lookup(want, k)
    /\ \E i, j, l \in 1..Len(changed) :
        /\ changed[i][2].kind = "Create"
        /\ changed[j][2].kind = "Delete"
        /\ changed[l][2].kind = "Patch"

\* Some add, remove or replace of the patch has a path that starts with
\* "/spec/<field>/".
TouchesInside(ops, field) ==
    \E o \in ops : /\ o.op \in {"add", "remove", "replace"}
                   /\ Len(o.path) >= 3
                   /\ o.path[1] = "spec"
                   /\ o.path[2] = field

\* C9: for a key in have and want with unequal objects the action is Recreate
\* exactly when want is an apps/v1 Deployment and the JSON-Patch touches a path
\* below /spec/selector/, or want is a batch/v1 Job and the patch touches a path
\* below /spec/template/; otherwise it is Patch carrying that JSON-Patch.
C9_RecreateTriggers ==
    pc = "returned" =>
        \A i \in 1..Len(changed) :
            LET k == changed[i][1]
                a == changed[i][2]
            IN  (Lookup(have, k) # None /\ Lookup(want, k) # None) =>
                    LET w == Unwrap(Lookup(want, k))
                        ops == json_patch_diff(ToValue(Unwrap(Lookup(have, k))), ToValue(w), <<>>)
                        trigger ==
                            \/ w.types = TypeMeta("apps/v1", "Deployment") /\ TouchesInside(ops, "selector")
                            \/ w.types = TypeMeta("batch/v1", "Job") /\ TouchesInside(ops, "template")
                    IN  /\ a.kind = "Recreate" <=> trigger
                        /\ ~trigger => a = Patch(w, ops)
C9_Witness ==
    /\ pc = "returned"
    /\ \E i, j, l \in 1..Len(changed) :
        /\ changed[i][1] = DepKey /\ changed[i][2].kind = "Recreate"
        /\ changed[j][1] = JobKey /\ changed[j][2].kind = "Recreate"
        /\ changed[l][1] = CmKey /\ changed[l][2].kind = "Patch"
        /\ TouchesInside(changed[l][2].patch, "selector")

\* C10: a Recreate action carries the want object with resource_version and
\* uid cleared and nothing else changed; the `after` of a Patch action is the
\* want object as it is.
C10_RecreatePayload ==
    pc = "returned" =>
        \A i \in 1..Len(changed) :
            LET a == changed[i][2]
                w == Unwrap(Lookup(want, changed[i][1]))
            IN  /\ a.kind = "Recreate" =>
                    a.object = DynamicObject(w.types,
                        ObjectMeta(w.metadata.name, w.metadata.namespace, None, None,
                                   w.metadata.managed_fields), w.data)
                /\ a.kind = "Patch" => a.after = w
C10_Witness ==
    /\ pc = "returned"
    /\ \E i, j \in 1..Len(changed) :
        /\ changed[i][2].kind = "Recreate"
        /\ Unwrap(Lookup(want, changed[i][1])).metadata.resource_version # None
        /\ Unwrap(Lookup(want, changed[i][1])).metadata.uid # None
        /\ changed[j][2].kind = "Patch"
        /\ changed[j][2].after.metadata.uid # None

(***************************************************************************)
(* Properties of copy_unmanaged_fields, checked under SpecPure.            *)
(***************************************************************************)
Merged == command.name = "copy_unmanaged_fields" /\ pc \in {"returned", "repeated"} /\ changed[1].ok
HasMember(v, k) == IsObj(v) /\ k \in DOMAIN v.f

\* The paths to the non-null scalars of a value, through members of objects
\* only (ObjectLeafPaths) or through elements of arrays as well (LeafPaths).
RECURSIVE LeafPaths(_)
LeafPaths(v) ==
    IF IsObj(v) THEN UNION {{<<k>> \o p : p \in LeafPaths(v.f[k])} : k \in DOMAIN v.f}
    ELSE IF IsArr(v)
    THEN UNION {{<<IndexToken(i - 1)>> \o p : p \in LeafPaths(v.a[i])} : i \in 1..Len(v.a)}
    ELSE IF v = JNull THEN {} ELSE {<<>>}
RECURSIVE ObjectLeafPaths(_)
ObjectLeafPaths(v) ==
    IF IsObj(v) THEN UNION {{<<k>> \o p : p \in ObjectLeafPaths(v.f[k])} : k \in DOMAIN v.f}
    ELSE IF IsArr(v) \/ v = JNull THEN {} ELSE {<<>>}
\* The value at a path, None when there is none.
RECURSIVE ValueAt(_, _)
ValueAt(v, p) ==
    IF p = <<>> THEN Some(v)
    ELSE IF IsObj(v) THEN
        IF Head(p) \in DOMAIN v.f THEN ValueAt(v.f[Head(p)], Tail(p)) ELSE None
    ELSE IF IsArr(v) THEN
        IF \E i \in 1..Len(v.a) : IndexToken(i - 1) = Head(p)
        THEN ValueAt(v.a[CHOOSE i \in 1..Len(v.a) : IndexToken(i - 1) = Head(p)], Tail(p))
        ELSE None
    ELSE None
\* The managed tree gives us nothing at the path p of have nor above it: it
\* is null where the path leaves it, or an object of other `f:` members.
RECURSIVE Unowned(_, _, _)
Unowned(managed, h, p) ==
    IF managed = JNull THEN TRUE
    ELSE IF p = <<>> \/ ~IsObj(h) \/ ~IsObj(managed) THEN FALSE
    ELSE IF FieldKey(Head(p)) \in DOMAIN managed.f
    THEN Unowned(managed.f[FieldKey(Head(p))], h.f[Head(p)], Tail(p))
    ELSE DOMAIN managed.f # {} /\ "." \notin DOMAIN managed.f
\* The managed tree holds no entry for the path p of object members.
RECURSIVE NoEntry(_, _)
NoEntry(managed, p) ==
    IF p = <<>> THEN managed = JNull
    ELSE IF IsObj(managed) /\ FieldKey(Head(p)) \in DOMAIN managed.f
    THEN NoEntry(managed.f[FieldKey(Head(p))], Tail(p))
    ELSE managed = JNull \/ IsObj(managed)
\* want is an object at every proper prefix of p and holds nothing or null
\* at p.
RECURSIVE WantsNothing(_, _)
WantsNothing(w, p) ==
    IF p = <<>> THEN w = JNull
    ELSE /\ IsObj(w)
         /\ IF Head(p) \in DOMAIN w.f THEN WantsNothing(w.f[Head(p)], Tail(p)) ELSE Len(p) = 1

\* C11: merging is idempotent in want: when copy_unmanaged_fields(have, want,
\* managed) returns R, copy_unmanaged_fields(have, R, managed) returns R too.
C11_MergerIdempotent ==
    (command.name = "copy_unmanaged_fields" /\ pc = "repeated") =>
        changed[2].ok /\ changed[2].v = changed[1].v
C11_Witness ==
    /\ command.name = "copy_unmanaged_fields"
    /\ pc = "repeated"
    /\ IsArr(command.have) /\ IsArr(command.want)
    /\ \E i \in 1..Len(command.want.a) : command.want.a[i] = JNull
    /\ changed[2].ok /\ changed[2].v = changed[1].v /\ changed[1].v # command.want

Matching(e) ==
    {i \in 1..Len(KSelectors) :
        KSelectors[i].key \in DOMAIN command.managed.f /\ SelectorMatches(KSelectors[i].matcher, e)}
\* An array merge under `k:` selectors with no null in want.
SelectorMerge ==
    /\ command.name = "copy_unmanaged_fields"
    /\ pc = "returned"
    /\ IsArr(command.have) /\ IsArr(command.want) /\ IsObj(command.managed)
    /\ DOMAIN command.managed.f # {}
    /\ \A k \in DOMAIN command.managed.f : IsKSelector(k)
    /\ Len(command.have.a) = Len(command.want.a)
    /\ \A i \in 1..Len(command.want.a) : IsObj(command.have.a[i]) /\ IsObj(command.want.a[i])
\* want's element i carries valueFrom and no value, over the same-named
\* entry owned by its selector or over another entry when no selector
\* matches it.
ReplacesValue(i) ==
    /\ HasMember(command.want.a[i], "valueFrom")
    /\ ~HasMember(command.want.a[i], "value")
    /\ HasMember(command.have.a[i], "value")
    /\ \/ command.have.a[i].f.name = command.want.a[i].f.name /\ Matching(command.want.a[i]) # {}
       \/ command.have.a[i].f.name # command.want.a[i].f.name /\ Matching(command.want.a[i]) = {}

\* C13: in an array merge under `k:` selectors, a want element with valueFrom
\* and no value comes out without any `value` member, over the same-named
\* owned entry and over a differently named one alike, and the sibling
\* elements come out as in want.
C13_ValueFromDropsValue ==
    SelectorMerge =>
        \A i \in 1..Len(command.want.a) :
            ReplacesValue(i) =>
                /\ changed[1].ok
                /\ Len(changed[1].v.a) = Len(command.want.a)
                /\ ~HasMember(changed[1].v.a[i], "value")
                /\ HasMember(changed[1].v.a[i], "valueFrom")
                /\ \A j \in 1..Len(command.want.a) :
                       HasMember(command.want.a[j], "value") => changed[1].v.a[j] = command.want.a[j]
C13_Witness ==
    /\ SelectorMerge
    /\ changed[1].ok
    /\ Len(command.want.a) = 2
    /\ ReplacesValue(1)
    /\ command.have.a[1].f.name # command.want.a[1].f.name
    /\ changed[1].v.a[2] = command.want.a[2]
    /\ HasMember(changed[1].v.a[1], "value")

\* C14: with have and want objects and managed the empty object, the merge
\* returns want exactly; members that only have holds are not carried over.
C14_EmptyManagedOwnsAll ==
    (/\ command.name = "copy_unmanaged_fields" /\ pc = "returned"
     /\ IsObj(command.have) /\ IsObj(command.want) /\ command.managed = JObj(EmptyMap)) =>
        changed[1].ok /\ changed[1].v = command.want
C14_Witness ==
    /\ command.name = "copy_unmanaged_fields" /\ pc = "returned"
    /\ IsObj(command.have) /\ IsObj(command.want) /\ command.managed = JObj(EmptyMap)
    /\ changed[1].ok
    /\ \E k \in DOMAIN command.have.f \ DOMAIN command.want.f : HasMember(changed[1].v, k)

\* C15: with have and want arrays and a managed object that holds the
\* self-marker `.`, the merge succeeds and returns want.
C15_DotOwnsArray ==
    (/\ command.name = "copy_unmanaged_fields" /\ pc = "returned"
     /\ IsArr(command.have) /\ IsArr(command.want)
     /\ IsObj(command.managed) /\ "." \in DOMAIN command.managed.f) =>
        changed[1].ok /\ changed[1].v = command.want
C15_Witness ==
    /\ command.name = "copy_unmanaged_fields" /\ pc = "returned"
    /\ IsArr(command.have) /\ IsArr(command.want)
    /\ IsObj(command.managed) /\ "." \in DOMAIN command.managed.f
    /\ ~changed[1].ok

\* The (1-based) indices of want whose element is removed: a null over a
\* value of have; a null matches no `k:` selector of the model.
Dropped ==
    {i \in 1..Len(command.want.a) :
        i <= Len(command.have.a) /\ command.want.a[i] = JNull /\ command.have.a[i] # JNull}
\* Where element i of want is in the merged array.
Position(i) == i - Cardinality({d \in Dropped : d < i})

\* C16: in an array merge at an unowned position every null of want over a
\* value of have is dropped and "/" and its index in want is among the
\* remove patches; a null over a null stays, elements beyond have's length
\* are want's, and the merged array is shorter than want by the elements
\* dropped.
C16_NullRemovesElement ==
    (Merged /\ pc = "returned" /\ IsArr(command.have) /\ IsArr(command.want)) =>
        /\ Len(changed[1].v.a) = Len(command.want.a) - Cardinality(Dropped)
        /\ \A i \in Dropped : ("/" \o IndexToken(i - 1)) \in changed[1].rp
        /\ \A i \in (1..Len(command.want.a)) \ Dropped :
               /\ command.want.a[i] = JNull => changed[1].v.a[Position(i)] = JNull
               /\ i > Len(command.have.a) => changed[1].v.a[Position(i)] = command.want.a[i]
C16_Witness ==
    /\ Merged /\ pc = "returned" /\ IsArr(command.have) /\ IsArr(command.want)
    /\ command.have.a = <<JNum(1), JNum(2), JNull>>
    /\ command.want.a = <<JNum(1), JNull, JNull>>
    /\ command.managed = JNull
    /\ changed[1].v = JArr(<<JNum(1), JNull>>)
    /\ changed[1].rp = {"/1"}

(***************************************************************************)
(* Properties of munge_secrets and key_matches_filter, under SpecPure.     *)
(***************************************************************************)
Munged == command.name = "munge_secrets" /\ pc = "returned"
IsSecret(o) == o.types = TypeMeta("v1", "Secret")
\* Two objects with the same members that differ at most in the values
\* inside the members named.
SameButValues(x, y, members) ==
    /\ x.types = y.types
    /\ x.metadata = y.metadata
    /\ DOMAIN x.data = DOMAIN y.data
    /\ \A k \in DOMAIN x.data :
           \/ x.data[k] = y.data[k]
           \/ /\ k \in members
              /\ IsObj(x.data[k]) /\ IsObj(y.data[k])
              /\ DOMAIN x.data[k].f = DOMAIN y.data[k].f
\* The `data` map of an object, empty when it has none.
DataOf(body) == IF "data" \in DOMAIN body /\ IsObj(body["data"]) THEN body["data"].f ELSE EmptyMap
PriorData == IF IsSome(command.from) THEN DataOf(Unwrap(command.from).data) ELSE EmptyMap

\* C17: nothing of the values under `data` and `stringData` of an incoming
\* v1/Secret reaches the output: two incoming objects that differ only in
\* those values give, for the same prior, equal outputs.
C17_NoSecretPasses ==
    (Munged /\ IsSecret(command.to[1])
     /\ SameButValues(command.to[1], command.to[2], {"data", "stringData"})) =>
        changed[1] = changed[2]
\* C17 as amended: two incoming v1/Secret objects that differ only in the
\* values of their `data` map give, for the same prior, equal outputs.
C17_NoDataValuePasses ==
    (Munged /\ IsSecret(command.to[1])
     /\ SameButValues(command.to[1], command.to[2], {"data"})) =>
        changed[1] = changed[2]
C17_Witness ==
    /\ Munged /\ IsSecret(command.to[1])
    /\ SameButValues(command.to[1], command.to[2], {"data"})
    /\ DataOf(command.to[1].data) # DataOf(command.to[2].data)
    /\ DOMAIN DataOf(command.to[1].data) = {"password", "api_key"}
    /\ "stringData" \in DOMAIN command.to[1].data
    /\ DOMAIN PriorData = {"password"}
    /\ changed[1].ok
    /\ changed[1] = changed[2]

\* C18: for a v1/Secret the keys of the output's `data` are those of the
\* prior's data and of the incoming data, a key of the prior with the
\* prior's value and any other with `c29tZSBzdHVmZg==`; an object of another
\* type comes out as it went in.
C18_DataKeysAndValues ==
    (Munged /\ changed[1].ok) =>
        IF IsSecret(command.to[1])
        THEN /\ DOMAIN DataOf(changed[1].to.data) = DOMAIN PriorData \cup DOMAIN DataOf(command.to[1].data)
             /\ \A k \in DOMAIN DataOf(changed[1].to.data) :
                    DataOf(changed[1].to.data)[k] =
                        IF k \in DOMAIN PriorData THEN PriorData[k] ELSE JStr("c29tZSBzdHVmZg==")
        ELSE changed[1].to = command.to[1]
C18_Witness ==
    /\ Munged /\ changed[1].ok /\ IsSecret(command.to[1])
    /\ PriorData = [password |-> JStr("b2xk")]
    /\ DataOf(command.to[1].data) = [password |-> JStr("b3Ro"), api_key |-> JStr("bmV3")]
    /\ DataOf(changed[1].to.data) = [password |-> JStr("b2xk"), api_key |-> JStr("c29tZSBzdHVmZg==")]

\* C20: key_matches_filter is true exactly when every field the filter sets
\* equals the key's; a field it leaves unset excludes nothing, and a
\* namespace it sets never matches a key that has none.
C20_FilterSound ==
    (command.name = "key_matches_filter" /\ pc = "returned") =>
        LET k == command.key
            f == command.filter
        IN  /\ changed[1] =
                   /\ \A x \in {"api_version", "cluster", "kind", "name"} :
                          f[x] # None => f[x] = Some(k[x])
                   /\ f.namespace # None => f.namespace = k.namespace
            /\ f = NoFilter => changed[1]
            /\ (f.namespace # None /\ k.namespace = None) => ~changed[1]
C20_Witness ==
    /\ command.name = "key_matches_filter" /\ pc = "returned"
    /\ command.filter.namespace # None /\ command.filter.kind # None
    /\ command.filter.name = None /\ command.filter.cluster = None
    /\ command.key.namespace = command.filter.namespace
    /\ changed[1]

(***************************************************************************)
(* Properties of refresh, under Spec.                                      *)
(***************************************************************************)
\* What the clusters showed for the key of row r when refresh started, with
\* the data of a Secret scrubbed against the stored object.
LiveAt(r) ==
    LET t == Target(ApiOf(RowToKey(r)), r.name)
    IN  IF t \in DOMAIN before.clusters
        THEN Some(munge_secrets(Some(FromValue(before.database[r])), before.clusters[t]).to)
        ELSE None

\* C19: refresh writes nothing to the clusters; once confirmed and finished,
\* the row of a key the clusters do not show is gone, the row of a key whose
\* live object differs from the stored one holds the object read, every
\* other row is as it was and no row is new; a refresh that ends in an
\* error has written nothing to the table.
C19_RefreshFollowsClusters ==
    command.name = "refresh" =>
        /\ clusters = before.clusters
        /\ \A j \in 1..Len(log) : log[j].call \notin ClusterWrites
        /\ result = "err" => database = before.database
        /\ (pc = "done" /\ result = "ok" /\ Confirmed) =>
               /\ DOMAIN database \subseteq DOMAIN before.database
               /\ \A r \in DOMAIN before.database :
                      IF LiveAt(r) = None THEN r \notin DOMAIN database
                      ELSE /\ r \in DOMAIN database
                           /\ database[r] =
                                  IF Unwrap(LiveAt(r)) # FromValue(before.database[r])
                                  THEN ToValue(Unwrap(LiveAt(r)))
                                  ELSE before.database[r]
C19_Witness ==
    /\ command.name = "refresh" /\ pc = "done" /\ result = "ok" /\ Confirmed
    /\ \E r, q, u \in DOMAIN before.database :
        /\ LiveAt(r) = None /\ r \notin DOMAIN database
        /\ LiveAt(q) # None /\ q \in DOMAIN database
        /\ database[q] # before.database[q] /\ database[q] = ToValue(Unwrap(LiveAt(q)))
        /\ LiveAt(u) # None /\ u \in DOMAIN database /\ database[u] = before.database[u]

\* C21: whatever was asked of the pool before, the client handed out for a
\* request that starts with http:// has TLS verification off, and the client
\* handed out for a request with https:// or no scheme has it on.
C21_SchemeDecidesTls ==
    command.name = "get_reference_and_registry" =>
        \A i \in 1..Len(changed) :
            changed[i].ok =>
                changed[i].client.insecure_registry = (command.requests[i][1] = "http://")
C21_Witness ==
    /\ command.name = "get_reference_and_registry"
    /\ \E i, j \in 1..Len(changed) :
        /\ i < j /\ changed[i].ok /\ changed[j].ok
        /\ changed[i].reference.registry = changed[j].reference.registry
        /\ command.requests[i][1] = "http://" /\ command.requests[j][1] = "https://"

\* C22: in the desired set push compares when no filter is given, every
\* namespace a key of by_key names has its Namespace key in namespaces, a
\* Namespace the files declare is held as declared, and every other entry
\* of namespaces is named by a key of by_key.
Declared == {k \in DOMAIN from_files.by_key : IsNamespaceKey(k)}
C22_NamespacesSynthesized ==
    (command.name = "push" /\ command.filter = NoFilter /\ pc # "start"
     /\ DOMAIN want.by_key \cup DOMAIN want.namespaces # {}) =>
        /\ \A k \in DOMAIN want.by_key :
               IsSome(k.namespace) => NsKey(Unwrap(k.namespace), k.cluster) \in DOMAIN want.namespaces
        /\ \A k \in Declared : k \in DOMAIN want.namespaces /\ want.namespaces[k] = from_files.by_key[k]
        /\ \A k \in DOMAIN want.namespaces \ Declared :
               \E x \in DOMAIN want.by_key : x.namespace = Some(k.name) /\ x.cluster = k.cluster
C22_Witness ==
    /\ command.name = "push" /\ command.filter = NoFilter /\ pc = "prompt"
    /\ \E k \in Declared, x \in DOMAIN want.by_key :
        /\ x.namespace = Some(k.name) /\ x.cluster = k.cluster
        /\ want.namespaces[k] = from_files.by_key[k]
        /\ want.namespaces[k] # SynthesizedNamespace(k.name)

\* C23: the plan of a push holds no key twice, and the calls of the run
\* come in plan order: a call of an action is issued only when the action
\* before it has made its last call, and the waits for pending deletions
\* come after the calls of every action.
C23_OneActionAtATime ==
    command.name = "push" =>
        /\ \A i, j \in 1..Len(changed) : changed[i][1] = changed[j][1] => i = j
        /\ \A b \in 1..Len(log) :
               /\ \A a \in 1..(b - 1) :
                      log[b].index = 0 \/ (log[a].index # 0 /\ log[a].index <= log[b].index)
               /\ log[b].index > 1 =>
                      \E a \in 1..(b - 1) :
                          /\ log[a].index = log[b].index - 1
                          /\ log[a].call \in DatabaseWrites /\ log[a].ok
               /\ log[b].index # 0 => log[b].key = changed[log[b].index][1]
C23_Witness ==
    /\ command.name = "push" /\ executor = "apply_diff" /\ pc = "done" /\ result = "ok"
    /\ Len(changed) >= 3
    /\ \E a, b, c \in 1..Len(log) :
        /\ a < b /\ b < c
        /\ log[a].index = 1 /\ log[b].index = 2 /\ log[c].index = 0
        /\ log[a].call \in ClusterWrites /\ log[b].call \in ClusterWrites /\ log[c].call = "get"

\* C24: get_kubernetes_clients runs discovery once on each cluster its keys
\* name, and get_kubernetes_api resolves a key with what discovery returned
\* of the key's own cluster: it finds the type when that cluster has it and
\* takes the scope that cluster gives it.
C24_DiscoveryPerCluster ==
    (command.name = "get_kubernetes_api" /\ pc = "returned") =>
        LET found == changed[1]
            api == changed[2]
            own == Discovery(command.key.cluster)
            type == <<command.key.api_version, command.key.kind>>
        IN  /\ \A c \in found.clients :
                   Cardinality({i \in 1..Len(found.discovered) : found.discovered[i] = c}) = 1
            /\ command.key \in command.keys =>
                   /\ api.ok <=> type \in DOMAIN own
                   /\ api.ok => (api.namespace = None <=> own[type] = "Cluster")
C24_Witness ==
    /\ command.name = "get_kubernetes_api" /\ pc = "returned"
    /\ command.key \in command.keys
    /\ Cardinality(changed[1].clients) = 2
    /\ changed[1].discovered # <<command.key.cluster>>
    /\ ~changed[2].ok
    /\ <<command.key.api_version, command.key.kind>> \in DOMAIN Discovery(command.key.cluster)

Handed == command.name = "push" /\ pc # "start" /\ Len(changed) > 0
C26_NamespaceCreatedFirst ==
    Handed =>
        \A i \in 1..Len(changed) :
            (KindOf(i) = "Create" /\ IsSome(changed[i][1].namespace)) =>
                LET ns == NsKey(Unwrap(changed[i][1].namespace), changed[i][1].cluster)
                IN  \/ RowKey(ns) \in DOMAIN before.database
                    \/ \E j \in 1..(i - 1) : changed[j][1] = ns /\ KindOf(j) = "Create"
C26_Witness ==
    /\ Handed /\ pc = "done" /\ result = "ok" /\ Confirmed
    /\ command.filter # NoFilter
    /\ \E i \in 1..Len(changed) :
        /\ KindOf(i) = "Create" /\ changed[i][1] = DepKey /\ i \in Completed
        /\ RowKey(NsKey("n1", "c1")) \notin DOMAIN before.database
        /\ \A j \in 1..Len(changed) : ~IsNamespaceKey(changed[j][1])

\* C27: every key of the plan of a push has the fields the filter gives,
\* every write of the run is for such a key, and the rows and the cluster
\* objects of the other keys stay as the push found them, those of keys
\* the files no longer render included.
C27_FilterBoundsPush ==
    command.name = "push" =>
        LET f == command.filter
            passes(k) ==
                /\ \A x \in {"api_version", "cluster", "kind", "name"} : f[x] # None => f[x] = Some(k[x])
                /\ f.namespace # None => f.namespace = k.namespace
        IN  /\ \A i \in 1..Len(changed) : passes(changed[i][1])
            /\ \A j \in 1..Len(log) : IsWrite(log[j]) => passes(log[j].key)
            /\ \A r \in DOMAIN database \cup DOMAIN before.database :
                   ~passes(RowToKey(r)) => Get(database, r) = Get(before.database, r)
            /\ \A t \in DOMAIN clusters \cup DOMAIN before.clusters :
                   (f.kind # None /\ f.kind # Some(t.kind)) => Get(clusters, t) = Get(before.clusters, t)
C27_Witness ==
    /\ command.name = "push" /\ command.filter # NoFilter
    /\ pc = "done" /\ result = "ok" /\ Confirmed
    /\ RowKey(CmKey) \in DOMAIN before.database
    /\ CmKey \notin DOMAIN from_files.by_key
    /\ Get(database, RowKey(CmKey)) = Get(before.database, RowKey(CmKey))
    /\ \E j \in 1..Len(log) : log[j].call \in ClusterWrites /\ log[j].ok /\ log[j].key = DepKey

(***************************************************************************)
(* SpecLive: Spec with the executor scheduled until it returns, a GET that *)
(* is answered taken whenever the wait can go on, and the clusters         *)
(* finishing every deletion they accepted.  A wait that has found the      *)
(* object MaxPolls times goes on without a new state until the cluster     *)
(* has finished the deletion.                                              *)
(***************************************************************************)
SpecLive ==
    /\ Spec
    /\ WF_vars(Validate \/ ApiUnavailable \/ ApplyCreate \/ ApplyDelete \/ ApplyPatch
               \/ MainRecreate \/ RecreateDelete \/ RecreateApply \/ ActionsDone)
    /\ WF_vars(RecreatePoll /\ result' # "err")
    /\ WF_vars(WaitForDeletion /\ result' # "err")
    /\ WF_vars(Tombstone)

\* The objects whose delete call apply_diff.rs has made and that the
\* clusters still show.
Lingering ==
    {t \in terminating :
        \E j \in 1..Len(log) :
            log[j].call = "delete" /\ log[j].ok /\ PlanTarget(log[j].index) = t}
FromApplyDiff == command.name = "push" /\ executor = "apply_diff"

\* C28 as stated: apply_diff of apply_diff.rs never returns while an object
\* it deleted is still shown.
C28_NeverReturnsWhileShown == (FromApplyDiff /\ pc = "done") => Lingering = {}

\* C28, amended: a wait ends well only on a GET that shows nothing (the
\* apply of a Recreate follows such a GET, a GET that shows the object is
\* followed by a GET of the same object), apply_diff returns success only
\* when no object it deleted is still shown, and when the clusters finish
\* the deletions every wait ends and apply_diff returns.
C28_WaitsUntilGone ==
    /\ [](FromApplyDiff =>
            /\ \A b \in 1..Len(log) :
                   (log[b].call = "apply" /\ KindOf(log[b].index) = "Recreate") =>
                       /\ b > 1 /\ log[b - 1].call = "get" /\ log[b - 1].key = log[b].key
                       /\ log[b - 1].ok /\ ~log[b - 1].visible
            /\ \A g \in 1..(Len(log) - 1) :
                   (log[g].call = "get" /\ log[g].ok /\ log[g].visible) =>
                       log[g + 1].call = "get" /\ log[g + 1].key = log[g].key
            /\ (pc = "done" /\ result = "ok") => Lingering = {})
    /\ (FromApplyDiff /\ step = "wait_for_deletion") ~> (step # "wait_for_deletion" \/ pc = "done")
    /\ (FromApplyDiff /\ pc = "validate") ~> (pc = "done")
C28_Witness ==
    /\ FromApplyDiff /\ pc = "done" /\ result = "ok"
    /\ \E g, a \in 1..Len(log) :
        /\ g < a /\ log[g].key = log[a].key /\ log[g].index = 0 /\ log[a].index = 0
        /\ log[g].call = "get" /\ log[g].ok /\ log[g].visible
        /\ log[a].call = "get" /\ log[a].ok /\ ~log[a].visible

(***************************************************************************)
(* Properties of import, under Spec.                                       *)
(***************************************************************************)
\* What import is to send for the object it read: no managed fields, and
\* of a v1/Secret every value under `data` replaced.
ImportBody(read) ==
    [read EXCEPT
        !.metadata.managed_fields = None,
        !.data = IF read.types = TypeMeta("v1", "Secret") /\ "data" \in DOMAIN @ /\ IsObj(@["data"])
                 THEN [@ EXCEPT !["data"] = JObj([k \in DOMAIN @.f |-> JStr("c29tZSBzdHVmZg==")])]
                 ELSE @]

\* C29: the server's answer to import's apply is its answer to the object
\* read without managed fields and with the `data` values of a Secret
\* replaced by the placeholder; the row inserted is that answer; and an
\* import of a tracked key or one that is declined writes nothing to the
\* clusters or the table.
C29_ImportAppliesScrubbed ==
    command.name = "import" =>
        LET key == command.key
            tracked == RowKey(key) \in DOMAIN before.database
            declined == IsSome(answer) /\ ~ask_for_user_permission(Unwrap(answer))
        IN  /\ (tracked \/ declined) => NoWrites /\ Untouched
            /\ \A j \in 1..Len(log) :
                   (log[j].call = "apply" /\ log[j].ok) =>
                       /\ log[1].call = "get" /\ log[1].ok
                       /\ log[j].value =
                              Some(ServerApply(log[1].value, ApiOf(key), key.name,
                                               ImportBody(Unwrap(log[1].value))))
                       /\ clusters[Target(ApiOf(key), key.name)] = Unwrap(log[j].value)
            /\ \A j \in 1..Len(log) :
                   log[j].call = "insert" =>
                       /\ j > 1 /\ log[j - 1].call = "apply" /\ log[j - 1].ok
                       /\ log[j].value = Some(ToValue(Unwrap(log[j - 1].value)))
                       /\ log[j].ok => database[RowKey(key)] = Unwrap(log[j].value)
C29_Witness ==
    /\ command.name = "import" /\ command.key = SecretKey
    /\ pc = "done" /\ result = "ok" /\ Confirmed
    /\ before.clusters[Target(ApiOf(SecretKey), "login")].data["data"].f["password"] = JStr("c2VjcmV0")
    /\ FromValue(database[RowKey(SecretKey)]).data["data"].f["password"] = Placeholder
    /\ clusters[Target(ApiOf(SecretKey), "login")].data["data"].f["password"] = Placeholder

(***************************************************************************)
(* Properties of copy_unmanaged_fields with nothing managed, under         *)
(* SpecPure.                                                               *)
(***************************************************************************)
\* w states part of h: the members of an object w are members of h with a
\* part of h's value, an array w has h's length and a part of each
\* element, a scalar w is h's value, and null stands only over null.
RECURSIVE SubDocument(_, _)
SubDocument(w, h) ==
    IF IsObj(w)
    THEN /\ IsObj(h)
         /\ DOMAIN w.f \subseteq DOMAIN h.f
         /\ \A k \in DOMAIN w.f : SubDocument(w.f[k], h.f[k])
    ELSE IF IsArr(w)
    THEN /\ IsArr(h)
         /\ Len(w.a) = Len(h.a)
         /\ \A i \in 1..Len(w.a) : SubDocument(w.a[i], h.a[i])
    ELSE w = h

\* C30: with managed null and a want that states part of have, the merge
\* returns have and no path to remove.
C30_PartOfHaveMergesToHave ==
    (command.name = "copy_unmanaged_fields" /\ pc \in {"returned", "repeated"}
     /\ command.managed = JNull /\ SubDocument(command.want, command.have)) =>
        /\ changed[1].ok
        /\ changed[1].v = command.have
        /\ changed[1].rp = {}
C30_Witness ==
    /\ Merged /\ command.managed = JNull
    /\ SubDocument(command.want, command.have) /\ command.want # command.have
    /\ IsArr(command.have) /\ Len(command.have.a) = 2
    /\ command.have.a[1] = JNull /\ IsObj(command.have.a[2])
    /\ changed[1].v = command.have /\ changed[1].rp = {}

====
